---- MODULE Spec2Model ----
(***************************************************************************)
(* Mountain comparison app: the selection store of App (handleMountainToggle, *)
(* handleClearSelections) behind MountainList and Header, the dataset hook  *)
(* useMountainData, the dataset validator (dataValidator.ts) and loader      *)
(* (dataLoader.ts), and the scaling functions (scalingUtils.ts).            *)
(***************************************************************************)
EXTENDS Integers, Sequences, FiniteSets, TLC

(***************************************************************************)
(* Bounds of the model.                                                     *)
(***************************************************************************)
\* number of records in the dataset (one more than the selection cap)
NumMountains == 11
\* state updates React may hold queued between two renders
MaxPending == 2
\* inputs off the beaten path: a click on a list item other than the one below
\* the item clicked last, a click on Clear All, or a reload of the dataset
\* after the first load
MaxDeviations == 1

\* fetches useMountainData may start
MaxRequests == 2
\* times the component using the hook is mounted
MaxMounts == 2
\* steps of the clock
MaxTicks == 6
\* records in a dataset handed to the validator
MaxRecords == 3
\* mountains in a selection handed to the scaling functions
MaxSelected == 2
\* bits of the significand of a floating-point number (round to nearest, ties
\* to even, as IEEE 754 binary64 does with 53 bits)
Precision == 8

\* successful dataset loads, each creating fresh Mountain objects
MaxLoads == IF MaxDeviations + 1 > MaxRequests THEN MaxDeviations + 1 ELSE MaxRequests

\* one step of the clock, in milliseconds
TickMs == 2 * 60 * 1000

(***************************************************************************)
(* Program constants.                                                       *)
(***************************************************************************)
\* App.handleMountainToggle: if (prev.length >= 10)
MAX_SELECTION == 10
\* MountainList: const maxSelections = 10
maxSelections == 10
\* useMountainData: const CACHE_DURATION = 5 * 60 * 1000
CACHE_DURATION == 5 * 60 * 1000
\* calculateContainerDimensions: padding: number = 40
DefaultPadding == 40

(***************************************************************************)
(* Data.  A Mountain object is identified by the record id it carries and   *)
(* by the load that created the object (object identity).                   *)
(***************************************************************************)
Ids == 1..NumMountains

Mountain == [id : Ids, obj : 1..MaxLoads]

NoMountain == [id |-> 0, obj |-> 0]

\* the collection a successful load number g hands to setMountains
LoadedCollection(g) == [i \in 1..NumMountains |-> [id |-> i, obj |-> g]]

IdsOf(s) == {s[i].id : i \in 1..Len(s)}

VARIABLES
    mountains,          \* useMountainData().mountains as rendered by MountainList
    loads,              \* number of collections delivered so far
    selectedMountains,  \* App state, as of the last render
    pending,            \* state updates queued by handlers since the last render
    lastToast,          \* the toast useToast showed last
    cursor,             \* index of the list item the user clicked last
    deviations,         \* inputs spent off the beaten path
    loading,            \* useMountainData: loading
    error,              \* useMountainData: error ("null" or the message)
    abortControllerRef, \* abortControllerRef.current: 0 for null, else the request it was made for
    aborted,            \* the AbortControllers on which abort() was called
    mountainDataCache,  \* module cache: 0 for null, else the load that produced the cached collection
    cacheTimestamp,     \* module cache: 0 for null, else Date.now() of the request that filled it
    clock,              \* Date.now()
    inflight,           \* loadData calls suspended in await loadMountainData()
    started,            \* fetches started so far
    instance,           \* mounts so far; the hook state belongs to the latest
    response,           \* what fetch('/mountains.json') and response.json() come to
    validated,          \* outcome of validateMountainData(body)
    loaded,             \* outcome of loadMountainData()
    subset,             \* the selected mountains handed to the scaling functions
    viewport,           \* window.innerWidth and window.innerHeight
    scaled,             \* the scaling function called, its arguments and its result
    viewDimensions,     \* ComparisonView state: containerDimensions
    listening,          \* ComparisonView: the effect ran, the resize listener is added
    triangles           \* the MountainTriangle elements ComparisonView rendered last

selVars == <<selectedMountains, pending, lastToast, cursor, deviations>>

hookVars == <<loading, error, abortControllerRef, aborted, mountainDataCache, cacheTimestamp,
              clock, inflight, started, instance>>

appVars == <<mountains, loads, selectedMountains, pending, lastToast, cursor, deviations>>

loaderVars == <<response, validated, loaded>>

scaleVars == <<subset, viewport, scaled, viewDimensions, listening, triangles>>

vars == <<mountains, loads, selVars, hookVars, loaderVars, scaleVars>>

(***************************************************************************)
(* App.handleMountainToggle: the updater handed to setSelectedMountains.    *)
(***************************************************************************)
\* prev.some(m => m.id === mountain.id)
isSelectedIn(prev, mountain) == \E i \in 1..Len(prev) : prev[i].id = mountain.id

\* prev.filter(m => m.id !== mountain.id)
FilterOut(prev, mountain) == SelectSeq(prev, LAMBDA x : x.id # mountain.id)

\* mutant: the updater trusts the guard of MountainList and checks no size
handleMountainToggle_NoCap(prev, mountain) ==
    IF isSelectedIn(prev, mountain)
    THEN FilterOut(prev, mountain)
    ELSE Append(prev, mountain)

\* mutant: membership by object identity (prev.includes(mountain))
handleMountainToggle_ByIdentity(prev, mountain) ==
    IF \E i \in 1..Len(prev) : prev[i] = mountain
    THEN SelectSeq(prev, LAMBDA x : x # mountain)
    ELSE IF Len(prev) >= MAX_SELECTION
         THEN prev
         ELSE Append(prev, mountain)

\* mutant: a new entity is put in front ([mountain, ...prev])
handleMountainToggle_Prepend(prev, mountain) ==
    IF isSelectedIn(prev, mountain)
    THEN FilterOut(prev, mountain)
    ELSE IF Len(prev) >= MAX_SELECTION
         THEN prev
         ELSE <<mountain>> \o prev

\* mutant: the size check is off by one (prev.length > 10)
handleMountainToggle_OffByOne(prev, mountain) ==
    IF isSelectedIn(prev, mountain)
    THEN FilterOut(prev, mountain)
    ELSE IF Len(prev) > MAX_SELECTION
         THEN prev
         ELSE Append(prev, mountain)

handleMountainToggle(prev, mountain) ==
    IF isSelectedIn(prev, mountain)
    THEN FilterOut(prev, mountain)
    ELSE IF Len(prev) >= MAX_SELECTION
         THEN prev
         ELSE Append(prev, mountain)

\* useToast: showSuccess / showWarning / showError tag the toast with its type
Toast(type, title) == [type |-> type, title |-> title]

NoToast == Toast("none", "none")

\* the toast the updater shows on its way (showSuccess / showWarning)
ToggleToast(prev, mountain) ==
    IF isSelectedIn(prev, mountain)
    THEN Toast("success", "Mountain removed")
    ELSE IF Len(prev) >= MAX_SELECTION
         THEN Toast("warning", "Selection limit reached")
         ELSE Toast("success", "Mountain added")

\* a queued update: an updater function (toggle) or a plain value (clear)
ToggleUpdate(m) == [kind |-> "toggle", m |-> m]

ClearUpdate == [kind |-> "clear", m |-> NoMountain]

\* mutant: clearing drops only what the last render showed as selected
ApplyUpdate_ClearRendered(u, st) ==
    IF u.kind = "toggle"
    THEN [sel |-> handleMountainToggle(st.sel, u.m), toast |-> ToggleToast(st.sel, u.m)]
    ELSE [sel |-> SelectSeq(st.sel, LAMBDA x : x.id \notin IdsOf(selectedMountains)),
          toast |-> st.toast]

\* React runs the queued updates in order, each on the result of the one before
ApplyUpdate(u, st) ==
    IF u.kind = "toggle"
    THEN [sel |-> handleMountainToggle(st.sel, u.m), toast |-> ToggleToast(st.sel, u.m)]
    ELSE [sel |-> << >>, toast |-> st.toast]

RECURSIVE ProcessQueue(_, _)
ProcessQueue(q, st) ==
    IF q = << >> THEN st ELSE ProcessQueue(Tail(q), ApplyUpdate(Head(q), st))

Rendered == ProcessQueue(pending, [sel |-> selectedMountains, toast |-> lastToast])

(***************************************************************************)
(* JavaScript values as the validator sees them: typeof, the number (with   *)
(* NaN and Infinity apart from the finite ones) and the characters of a     *)
(* string.                                                                  *)
(***************************************************************************)
JsValue(t, n, s) == [t |-> t, n |-> n, s |-> s]

Undefined == JsValue("undefined", 0, << >>)

Null == JsValue("object", 0, <<"null">>)

Num(k) == JsValue("number", k, << >>)

NaN == JsValue("number", 0, <<"NaN">>)

PosInfinity == JsValue("number", 0, <<"Infinity">>)

Str(chars) == JsValue("string", 0, chars)

isNaN(v) == v.s = <<"NaN">>

isFinite(v) == v.t = "number" /\ v.s = << >>

\* value > 0 on a number: false for NaN, true for Infinity
GreaterThanZero(v) == IF v.s = << >> THEN v.n > 0 ELSE v.s = <<"Infinity">>

RECURSIVE TrimLeft(_)
TrimLeft(s) == IF s # << >> /\ Head(s) = " " THEN TrimLeft(Tail(s)) ELSE s

RECURSIVE TrimRight(_)
TrimRight(s) ==
    IF s # << >> /\ s[Len(s)] = " " THEN TrimRight(SubSeq(s, 1, Len(s) - 1)) ELSE s

\* String.prototype.trim
trim(s) == TrimRight(TrimLeft(s))

(***************************************************************************)
(* dataValidator.ts                                                         *)
(***************************************************************************)
\* index of a ValidationError built without one
NoIndex == -1

ValidationError(text, id, field, index) ==
    [name |-> "ValidationError", text |-> text, id |-> id, field |-> field, index |-> index]

NoError == [name |-> "none", text |-> "", id |-> << >>, field |-> "", index |-> NoIndex]

isValidString(value) == value.t = "string" /\ Len(trim(value.s)) > 0

isValidPositiveNumber(value) ==
    value.t = "number" /\ ~ isNaN(value) /\ GreaterThanZero(value)

isValidOptionalString(value) == value = Undefined \/ isValidString(value)

\* an element of the mountains array: an object with these properties
\* (Undefined when absent), or something that is no object
RawMountain(id, name, height, width, country, region) ==
    [isObject |-> TRUE, id |-> id, name |-> name, height |-> height, width |-> width,
     country |-> country, region |-> region]

NonObject ==
    [isObject |-> FALSE, id |-> Undefined, name |-> Undefined, height |-> Undefined,
     width |-> Undefined, country |-> Undefined, region |-> Undefined]

\* mutant: the width check is left out
validateMountain_WidthUnchecked(mountain, index) ==
    IF ~ mountain.isObject
    THEN ValidationError("Mountain must be an object", << >>, "mountain", index)
    ELSE IF ~ isValidString(mountain.id)
    THEN ValidationError("Mountain id must be a non-empty string", << >>, "id", index)
    ELSE IF ~ isValidString(mountain.name)
    THEN ValidationError("Mountain name must be a non-empty string", << >>, "name", index)
    ELSE IF ~ isValidPositiveNumber(mountain.height)
    THEN ValidationError("Mountain height must be a positive number", << >>, "height", index)
    ELSE NoError

\* the error validateMountain throws, NoError when it returns
validateMountain(mountain, index) ==
    IF ~ mountain.isObject
    THEN ValidationError("Mountain must be an object", << >>, "mountain", index)
    ELSE IF ~ isValidString(mountain.id)
    THEN ValidationError("Mountain id must be a non-empty string", << >>, "id", index)
    ELSE IF ~ isValidString(mountain.name)
    THEN ValidationError("Mountain name must be a non-empty string", << >>, "name", index)
    ELSE IF ~ isValidPositiveNumber(mountain.height)
    THEN ValidationError("Mountain height must be a positive number", << >>, "height", index)
    ELSE IF ~ isValidPositiveNumber(mountain.width)
    THEN ValidationError("Mountain width must be a positive number", << >>, "width", index)
    ELSE IF ~ isValidOptionalString(mountain.country)
    THEN ValidationError("Mountain country must be a string or undefined", << >>, "country", index)
    ELSE IF ~ isValidOptionalString(mountain.region)
    THEN ValidationError("Mountain region must be a string or undefined", << >>, "region", index)
    ELSE NoError

\* mutant: a duplicate is reported at the index of the element seen first
DuplicateError_FirstIndex(ms, i) ==
    ValidationError("Duplicate mountain ID", ms[i].id.s, "id",
                    (CHOOSE j \in 1..i : ms[j].id = ms[i].id) - 1)

\* the error thrown for element i (array index i - 1) repeating a seen id
DuplicateError(ms, i) ==
    ValidationError("Duplicate mountain ID", ms[i].id.s, "id", i - 1)

\* mutant: the id is looked up in seenIds before the element is validated
RECURSIVE ValidateFrom_DuplicateFirst(_, _, _)
ValidateFrom_DuplicateFirst(ms, i, seenIds) ==
    IF i > Len(ms) THEN NoError
    ELSE IF ms[i].id.s \in seenIds THEN DuplicateError(ms, i)
    ELSE IF validateMountain(ms[i], i - 1) # NoError THEN validateMountain(ms[i], i - 1)
    ELSE ValidateFrom_DuplicateFirst(ms, i + 1, seenIds \cup {ms[i].id.s})

\* the forEach of validateMountains from element i on, seenIds being the ids
\* of the elements before
RECURSIVE ValidateFrom(_, _, _)
ValidateFrom(ms, i, seenIds) ==
    IF i > Len(ms) THEN NoError
    ELSE IF validateMountain(ms[i], i - 1) # NoError THEN validateMountain(ms[i], i - 1)
    ELSE IF ms[i].id.s \in seenIds THEN DuplicateError(ms, i)
    ELSE ValidateFrom(ms, i + 1, seenIds \cup {ms[i].id.s})

validateMountains(ms) ==
    IF Len(ms) = 0
    THEN ValidationError("Mountains array cannot be empty", << >>, "", NoIndex)
    ELSE ValidateFrom(ms, 1, {})

\* a parsed body: no object, an object without "mountains", an object whose
\* "mountains" is no array, or an object with a mountains array
Body(kind, ms) == [kind |-> kind, mountains |-> ms]

Returned(value) == [status |-> "returned", value |-> value, err |-> NoError]

Threw(err) == [status |-> "threw", value |-> << >>, err |-> err]

NotRun == [status |-> "not run", value |-> << >>, err |-> NoError]

validateMountainData(data) ==
    IF data.kind = "not an object"
    THEN Threw(ValidationError("Data must be an object", << >>, "", NoIndex))
    ELSE IF data.kind = "no mountains property"
    THEN Threw(ValidationError("Data must contain a mountains property", << >>, "", NoIndex))
    ELSE IF data.kind = "mountains not an array"
    THEN Threw(ValidationError("Mountains property must be an array", << >>, "", NoIndex))
    ELSE IF validateMountains(data.mountains) # NoError
    THEN Threw(validateMountains(data.mountains))
    ELSE Returned(data.mountains)

(***************************************************************************)
(* dataLoader.ts: loadMountainData                                          *)
(***************************************************************************)
DataLoadError(message, cause) ==
    [status |-> "threw", value |-> << >>,
     err |-> [name |-> "DataLoadError", message |-> message, cause |-> cause]]

OtherError(name, text) ==
    [name |-> name, text |-> text, id |-> << >>, field |-> "", index |-> NoIndex]

\* what fetch and response.json() come to
Response(kind, body) == [kind |-> kind, body |-> body]

NoBody == Body("not an object", << >>)

NoResponse == Response("none", NoBody)

\* mutant: a ValidationError is passed on as it is
loadMountainData_Unwrapped(resp) ==
    IF resp.kind = "HTTP error status"
    THEN DataLoadError("Failed to load mountain data: status", NoError)
    ELSE IF resp.kind = "fetch rejects: TypeError, Failed to fetch"
    THEN DataLoadError("Network error: Unable to fetch mountain data",
                       OtherError("TypeError", "Failed to fetch"))
    ELSE IF resp.kind = "fetch rejects: TypeError, Load failed"
    THEN DataLoadError("Unexpected error loading mountain data",
                       OtherError("TypeError", "Load failed"))
    ELSE IF resp.kind = "json rejects: SyntaxError"
    THEN DataLoadError("Invalid JSON format in mountain data",
                       OtherError("SyntaxError", "Unexpected token"))
    ELSE validateMountainData(resp.body)

loadMountainData(resp) ==
    IF resp.kind = "HTTP error status"
    THEN DataLoadError("Failed to load mountain data: status", NoError)
    ELSE IF resp.kind = "fetch rejects: TypeError, Failed to fetch"
    THEN DataLoadError("Network error: Unable to fetch mountain data",
                       OtherError("TypeError", "Failed to fetch"))
    ELSE IF resp.kind = "fetch rejects: TypeError, Load failed"
    THEN DataLoadError("Unexpected error loading mountain data",
                       OtherError("TypeError", "Load failed"))
    ELSE IF resp.kind = "json rejects: SyntaxError"
    THEN DataLoadError("Invalid JSON format in mountain data",
                       OtherError("SyntaxError", "Unexpected token"))
    ELSE IF validateMountainData(resp.body).status = "threw"
    THEN DataLoadError("Data validation failed", validateMountainData(resp.body).err)
    ELSE Returned(validateMountainData(resp.body).value)

(***************************************************************************)
(* The datasets the validator and the loader are run on.                    *)
(***************************************************************************)
IdValues == {Str(<<"a">>), Str(<<"b">>)}

BadIdValues == {Str(<<" ">>), Num(7)}

DimensionValues == {Num(1), Num(0), Num(-1), NaN, PosInfinity, Str(<<"1">>)}

RawMountains ==
    {RawMountain(id, Str(<<"n">>), h, Num(1), Undefined, Undefined) :
        id \in IdValues, h \in DimensionValues}
    \cup {RawMountain(id, Str(<<"n">>), Num(1), w, Undefined, Undefined) :
        id \in IdValues, w \in DimensionValues}
    \cup {RawMountain(id, Str(<<"n">>), Num(1), Num(1), Undefined, Undefined) :
        id \in BadIdValues}
    \cup {NonObject}

Bodies ==
    {Body("not an object", << >>), Body("no mountains property", << >>),
     Body("mountains not an array", << >>)}
    \cup {Body("array", ms) : ms \in UNION {[1..n -> RawMountains] : n \in 0..MaxRecords}}

\* records with every combination of good and bad fields
RecordIds == {Str(<<"a">>), Str(<<"b">>), Str(<<" ">>)}

RecordNames == {Str(<<"n">>), Str(<< >>), Undefined}

RecordDimensions == {Num(1), Num(0), NaN, PosInfinity}

OptionalValues == {Undefined, Str(<<"c">>), Str(<< >>), Str(<<" ">>), Null, Num(7)}

Records ==
    {RawMountain(id, name, h, w, country, region) :
        id \in RecordIds, name \in RecordNames, h \in RecordDimensions,
        w \in RecordDimensions, country \in OptionalValues, region \in OptionalValues}
    \cup {NonObject}

\* the records arrays with several violations are made of
ArrayRecords ==
    {RawMountain(id, Str(<<"n">>), h, Num(1), country, Undefined) :
        id \in RecordIds, h \in {Num(1), Num(0)}, country \in {Undefined, Num(7)}}
    \cup {NonObject}

Arrays ==
    {<<r>> : r \in Records}
    \cup UNION {[1..n -> ArrayRecords] : n \in 2..MaxRecords}

Responses ==
    {Response(k, NoBody) :
        k \in {"HTTP error status", "fetch rejects: TypeError, Failed to fetch",
               "fetch rejects: TypeError, Load failed", "json rejects: SyntaxError"}}
    \cup {Response("json", b) : b \in Bodies}

(***************************************************************************)
(* Numbers of the scaling functions.  A finite number is the fraction n/d   *)
(* in lowest terms, d a power of two.  Every arithmetic operation returns   *)
(* the exact result rounded to Precision significant bits, to nearest with  *)
(* ties to even; the exponent is not bounded.                               *)
(***************************************************************************)
Pow2(k) == 2 ^ k

Real(n, d) == [n |-> n, d |-> d]

Integer(i) == Real(i, 1)

Zero == Integer(0)

RoundHalfEven(n, d) ==
    IF 2 * (n % d) < d THEN n \div d
    ELSE IF 2 * (n % d) > d THEN (n \div d) + 1
    ELSE (n \div d) + ((n \div d) % 2)

Half(x) == IF x.n % 2 = 0 THEN Real(x.n \div 2, x.d) ELSE Real(x.n, 2 * x.d)

Double(x) == IF x.d > 1 THEN Real(x.n, x.d \div 2) ELSE Real(2 * x.n, 1)

\* n/d > 0 rounded to Precision significant bits
RECURSIVE RoundPositive(_, _)
RoundPositive(n, d) ==
    IF n < Pow2(Precision - 1) * d THEN Half(RoundPositive(2 * n, d))
    ELSE IF n >= Pow2(Precision) * d THEN Double(RoundPositive(n, 2 * d))
    ELSE Integer(RoundHalfEven(n, d))

Negate(x) == Real(0 - x.n, x.d)

\* the floating-point number nearest to n/d, d > 0
Round(n, d) ==
    IF n = 0 THEN Zero
    ELSE IF n > 0 THEN RoundPositive(n, d)
    ELSE Negate(RoundPositive(0 - n, d))

\* the numbers that are not finite: Infinity, -Infinity and NaN
Infinite == Real(1, 0)

NotANumber == Real(0, 0)

\* x * y
Times(x, y) ==
    IF x.d # 0 /\ y.d # 0 THEN Round(x.n * y.n, x.d * y.d)
    ELSE IF x.n = 0 \/ y.n = 0 THEN NotANumber
    ELSE IF (x.n > 0) = (y.n > 0) THEN Infinite
    ELSE Negate(Infinite)

\* x / y
Divide(x, y) ==
    IF x.d # 0 /\ y.d # 0 /\ y.n # 0
    THEN IF y.n > 0 THEN Round(x.n * y.d, x.d * y.n)
         ELSE Round(0 - (x.n * y.d), x.d * (0 - y.n))
    ELSE IF x = NotANumber \/ y = NotANumber THEN NotANumber
    ELSE IF x.d = 0 /\ y.d = 0 THEN NotANumber
    ELSE IF y.d = 0 THEN Zero
    ELSE IF x.n = 0 THEN NotANumber
    ELSE IF (x.n > 0) = (y.n >= 0) THEN Infinite
    ELSE Negate(Infinite)

\* x - y
Minus(x, y) == Round(x.n * y.d - y.n * x.d, x.d * y.d)

\* x + y
Plus(x, y) == Round(x.n * y.d + y.n * x.d, x.d * y.d)

\* x < y
LessThan(x, y) == x.n * y.d < y.n * x.d

\* Math.min(x, y)
MathMin(x, y) ==
    IF x = NotANumber \/ y = NotANumber THEN NotANumber
    ELSE IF LessThan(y, x) THEN y ELSE x

\* Math.max(...values) of a non-empty set of values
MathMax(values) ==
    IF NotANumber \in values THEN NotANumber
    ELSE CHOOSE x \in values : \A y \in values : ~ LessThan(x, y)

(***************************************************************************)
(* scalingUtils.ts                                                          *)
(***************************************************************************)
\* mutant: the width is that of the tallest mountain
calculateMaxDimensions_OfTallest(ms) ==
    IF Len(ms) = 0
    THEN [maxHeight |-> Zero, maxWidth |-> Zero]
    ELSE [maxHeight |-> MathMax({ms[i].height : i \in 1..Len(ms)}),
          maxWidth |->
              ms[CHOOSE i \in 1..Len(ms) :
                    \A j \in 1..Len(ms) : ~ LessThan(ms[i].height, ms[j].height)].width]

calculateMaxDimensions(ms) ==
    IF Len(ms) = 0
    THEN [maxHeight |-> Zero, maxWidth |-> Zero]
    ELSE [maxHeight |-> MathMax({ms[i].height : i \in 1..Len(ms)}),
          maxWidth |-> MathMax({ms[i].width : i \in 1..Len(ms)})]

\* an argument left out of a call
NotGiven == [given |-> FALSE, value |-> Zero]

Given(v) == [given |-> TRUE, value |-> v]

IntMin(a, b) == IF a < b THEN a ELSE b

IntMax(a, b) == IF a > b THEN a ELSE b

\* the padding calculateContainerDimensions works with in the breakpoint
EffectivePadding(viewportWidth, padding) ==
    IF viewportWidth <= 480 THEN IntMin(padding, 20)
    ELSE IF viewportWidth <= 768 THEN IntMin(padding, 30)
    ELSE padding

\* mutant: 200 reserved in height whatever the breakpoint
reservedHeight_Flat(viewportWidth) == 200

reservedHeight(viewportWidth) ==
    IF viewportWidth <= 480 THEN 180
    ELSE IF viewportWidth <= 768 THEN 200
    ELSE IF viewportWidth <= 1024 THEN 220
    ELSE 240

reservedWidth(viewportWidth) ==
    IF viewportWidth <= 480 THEN 40
    ELSE IF viewportWidth <= 768 THEN 60
    ELSE IF viewportWidth <= 1024 THEN 200
    ELSE 300

\* mutant: no minimum width
minWidth_None(viewportWidth) == 0

minWidth(viewportWidth) ==
    IF viewportWidth <= 480 THEN 280 ELSE IF viewportWidth <= 768 THEN 400 ELSE 500

minHeight(viewportWidth) ==
    IF viewportWidth <= 480 THEN 200 ELSE IF viewportWidth <= 768 THEN 250 ELSE 300

\* viewport sizes and padding are integers, on which the arithmetic is exact
calculateContainerDimensions(viewportWidth, viewportHeight, padding) ==
    LET p == EffectivePadding(viewportWidth,
                              IF padding.given THEN padding.value ELSE DefaultPadding)
    IN [containerWidth |->
            IntMax(minWidth(viewportWidth), viewportWidth - reservedWidth(viewportWidth) - p * 2),
        containerHeight |->
            IntMax(minHeight(viewportWidth), viewportHeight - reservedHeight(viewportWidth) - p * 2)]

\* mutant: no margin when marginRatio is left out
DefaultMarginRatio_Zero == Zero

\* marginRatio: number = 0.1
DefaultMarginRatio == Round(1, 10)

\* mutant: only the width decides the scale
calculateScaleFactor_WidthOnly(maxDimensions, containerDimensions, marginRatio) ==
    LET m == IF marginRatio.given THEN marginRatio.value ELSE DefaultMarginRatio
        availableWidth ==
            Times(containerDimensions.containerWidth, Minus(Integer(1), Times(m, Integer(2))))
    IN IF maxDimensions.maxHeight = Zero \/ maxDimensions.maxWidth = Zero
       THEN Zero
       ELSE Divide(availableWidth, maxDimensions.maxWidth)

\* mutant: the margin is taken off as an absolute length
calculateScaleFactor_AbsoluteMargin(maxDimensions, containerDimensions, marginRatio) ==
    LET m == IF marginRatio.given THEN marginRatio.value ELSE DefaultMarginRatio
        availableWidth ==
            Minus(containerDimensions.containerWidth, Times(m, Integer(2)))
        availableHeight ==
            Minus(containerDimensions.containerHeight, Times(m, Integer(2)))
    IN IF maxDimensions.maxHeight = Zero \/ maxDimensions.maxWidth = Zero
       THEN Zero
       ELSE MathMin(Divide(availableWidth, maxDimensions.maxWidth),
                    Divide(availableHeight, maxDimensions.maxHeight))

calculateScaleFactor(maxDimensions, containerDimensions, marginRatio) ==
    LET m == IF marginRatio.given THEN marginRatio.value ELSE DefaultMarginRatio
        availableWidth ==
            Times(containerDimensions.containerWidth, Minus(Integer(1), Times(m, Integer(2))))
        availableHeight ==
            Times(containerDimensions.containerHeight, Minus(Integer(1), Times(m, Integer(2))))
    IN IF maxDimensions.maxHeight = Zero \/ maxDimensions.maxWidth = Zero
       THEN Zero
       ELSE MathMin(Divide(availableWidth, maxDimensions.maxWidth),
                    Divide(availableHeight, maxDimensions.maxHeight))

createScaleConfig(ms, viewportWidth, viewportHeight, padding) ==
    [maxHeight |-> calculateMaxDimensions(ms).maxHeight,
     maxWidth |-> calculateMaxDimensions(ms).maxWidth,
     containerWidth |->
         calculateContainerDimensions(viewportWidth, viewportHeight, padding).containerWidth,
     containerHeight |->
         calculateContainerDimensions(viewportWidth, viewportHeight, padding).containerHeight]

calculateScaledDimensions(mountain, scaleFactor) ==
    [scaledWidth |-> Times(mountain.width, scaleFactor),
     scaledHeight |-> Times(mountain.height, scaleFactor)]

DigitChar(k) == <<"0", "1", "2", "3", "4", "5", "6", "7", "8", "9">>[k + 1]

\* the decimal digits of a natural number
RECURSIVE Digits(_)
Digits(n) == IF n < 10 THEN <<DigitChar(n)>> ELSE Digits(n \div 10) \o <<DigitChar(n % 10)>>

\* the decimal digits of r/d < 1 after the point (finitely many, d being a
\* power of two)
RECURSIVE FractionDigits(_, _)
FractionDigits(r, d) ==
    IF r = 0 THEN << >>
    ELSE <<DigitChar((r * 10) \div d)>> \o FractionDigits((r * 10) % d, d)

Abs(i) == IF i < 0 THEN 0 - i ELSE i

\* `${x}`: Number::toString prints the shortest decimal that reads back as
\* x; here the exact decimal expansion of x, which reads back as x as well
\* (magnitudes that print in exponent notation are not among the inputs)
NumberToString(x) ==
    IF x = NotANumber THEN <<"N", "a", "N">>
    ELSE IF x = Infinite THEN <<"I", "n", "f", "i", "n", "i", "t", "y">>
    ELSE IF x = Negate(Infinite) THEN <<"-", "I", "n", "f", "i", "n", "i", "t", "y">>
    ELSE
    (IF x.n < 0 THEN <<"-">> ELSE << >>)
    \o Digits(Abs(x.n) \div x.d)
    \o (IF Abs(x.n) % x.d = 0 THEN << >> ELSE <<".">> \o FractionDigits(Abs(x.n) % x.d, x.d))

\* mutant: the apex is put above the left corner
generateTrianglePath_ApexLeft(mountain, scaleFactor) ==
    <<"M", " ">> \o NumberToString(Zero) \o <<" ">> \o NumberToString(Zero)
    \o <<" ", "L", " ">> \o NumberToString(Zero)
    \o <<" ">> \o NumberToString(Times(mountain.height, scaleFactor))
    \o <<" ", "L", " ">> \o NumberToString(Times(mountain.width, scaleFactor))
    \o <<" ">> \o NumberToString(Times(mountain.height, scaleFactor))
    \o <<" ", "Z">>

\* the path is a string, here the sequence of its characters
generateTrianglePath(mountain, scaleFactor) ==
    LET scaledHeight == Times(mountain.height, scaleFactor)
        scaledWidth == Times(mountain.width, scaleFactor)
        topX == Divide(scaledWidth, Integer(2))
        topY == Zero
        bottomLeftX == Zero
        bottomLeftY == scaledHeight
        bottomRightX == scaledWidth
        bottomRightY == scaledHeight
    IN <<"M", " ">> \o NumberToString(topX) \o <<" ">> \o NumberToString(topY)
       \o <<" ", "L", " ">> \o NumberToString(bottomLeftX)
       \o <<" ">> \o NumberToString(bottomLeftY)
       \o <<" ", "L", " ">> \o NumberToString(bottomRightX)
       \o <<" ">> \o NumberToString(bottomRightY)
       \o <<" ", "Z">>

DefaultSpacing == Integer(20)

\* scaledMountains.reduce((sum, mountain) => sum + mountain.scaledWidth, 0)
RECURSIVE SumOfScaledWidths(_, _)
SumOfScaledWidths(ms, scaleFactor) ==
    IF ms = << >> THEN Zero
    ELSE Plus(SumOfScaledWidths(SubSeq(ms, 1, Len(ms) - 1), scaleFactor),
              calculateScaledDimensions(ms[Len(ms)], scaleFactor).scaledWidth)

\* mutant: one spacing for every mountain
calculateSVGViewBox_SpacingPerMountain(ms, scaleFactor, spacing) ==
    IF Len(ms) = 0 THEN <<"0", " ", "0", " ", "1", "0", "0", " ", "1", "0", "0">>
    ELSE <<"0", " ", "0", " ">>
         \o NumberToString(
                Plus(SumOfScaledWidths(ms, scaleFactor),
                     Times(Integer(Len(ms)),
                           IF spacing.given THEN spacing.value ELSE DefaultSpacing)))
         \o <<" ">>
         \o NumberToString(
                MathMax({calculateScaledDimensions(ms[i], scaleFactor).scaledHeight :
                            i \in 1..Len(ms)}))

\* the view box is a string, here the sequence of its characters
calculateSVGViewBox(ms, scaleFactor, spacing) ==
    IF Len(ms) = 0 THEN <<"0", " ", "0", " ", "1", "0", "0", " ", "1", "0", "0">>
    ELSE LET totalWidth ==
                 Plus(SumOfScaledWidths(ms, scaleFactor),
                      Times(Integer(Len(ms) - 1),
                            IF spacing.given THEN spacing.value ELSE DefaultSpacing))
             maxHeight ==
                 MathMax({calculateScaledDimensions(ms[i], scaleFactor).scaledHeight :
                             i \in 1..Len(ms)})
         IN <<"0", " ", "0", " ">> \o NumberToString(totalWidth)
            \o <<" ">> \o NumberToString(maxHeight)

(***************************************************************************)
(* The selections, viewports and arguments the scaling functions are run on.*)
(***************************************************************************)
Dimensions == {Integer(1), Integer(3), Integer(5)}

ScalableMountains == [height : Dimensions, width : Dimensions]

Subsets == UNION {[1..n -> ScalableMountains] : n \in 0..MaxSelected}

\* the three mountains of the scaling tests: Everest, K2, Denali
Fixture ==
    << [height |-> Integer(8849), width |-> Integer(5000)],
       [height |-> Integer(8611), width |-> Integer(4200)],
       [height |-> Integer(6190), width |-> Integer(3500)] >>

Viewports ==
    [width : {100, 400, 480, 481, 768, 769, 1024, 1025, 1200},
     height : {100, 300, 800, 1200}]

DefaultViewport == [width |-> 1200, height |-> 800]

NoPadding == [given |-> FALSE, value |-> 0]

Paddings == {NoPadding} \cup {[given |-> TRUE, value |-> p] : p \in {0, 40, 60, 500}}

ContainerSizes == {Integer(4), Integer(7), Integer(10)}

Containers == [containerWidth : ContainerSizes, containerHeight : ContainerSizes]

\* 0 <= marginRatio < 0.5: left out (0.1), 0, 0.25, 0.4
MarginRatios == {NotGiven, Given(Zero), Given(Real(1, 4)), Given(Round(2, 5))}

ScaleFactors == {Zero, Integer(1), Integer(2), Real(1, 2), Real(3, 8)}

\* spacing: left out (20), 0, 10, 25
Spacings == {NotGiven, Given(Zero), Given(Integer(10)), Given(Integer(25))}

\* nothing computed yet
NotScaled ==
    [fn |-> "none",
     padding |-> NoPadding,
     container |-> [containerWidth |-> Zero, containerHeight |-> Zero],
     marginRatio |-> NotGiven,
     mountain |-> [height |-> Zero, width |-> Zero],
     scaleFactorArg |-> Zero,
     maxDimensions |-> [maxHeight |-> Zero, maxWidth |-> Zero],
     containerDimensions |-> [containerWidth |-> 0, containerHeight |-> 0],
     scaleFactor |-> Zero,
     scaleConfig |-> [maxHeight |-> Zero, maxWidth |-> Zero,
                      containerWidth |-> 0, containerHeight |-> 0],
     path |-> << >>,
     spacing |-> NotGiven,
     viewBox |-> << >>]

(***************************************************************************)
(* ComparisonView.tsx and MountainTriangle.tsx                              *)
(***************************************************************************)
\* useState({ containerWidth: 800, containerHeight: 600 })
InitialContainerDimensions == [containerWidth |-> 800, containerHeight |-> 600]

\* the container as the numbers calculateScaleFactor computes with
ContainerNumbers(container) ==
    [containerWidth |-> Round(container.containerWidth, 1),
     containerHeight |-> Round(container.containerHeight, 1)]

\* what MountainTriangle draws for its props
MountainTriangle(mountain, scale, maxDimensions) ==
    [mountain |-> mountain,
     scale |-> scale,
     scaledWidth |-> calculateScaledDimensions(mountain, scale).scaledWidth,
     scaledHeight |-> calculateScaledDimensions(mountain, scale).scaledHeight,
     trianglePath |-> generateTrianglePath(mountain, scale)]

\* mutant: every mountain is scaled to fill the container by itself
ComparisonView_OwnScale(selected, container) ==
    [i \in 1..Len(selected) |->
        MountainTriangle(selected[i],
                         calculateScaleFactor(calculateMaxDimensions(<<selected[i]>>),
                                              ContainerNumbers(container), NotGiven),
                         calculateMaxDimensions(selected)) ]

\* the MountainTriangle elements of one render, none for the empty selection
ComparisonView(selected, container) ==
    IF Len(selected) = 0 THEN << >>
    ELSE LET maxDimensions == calculateMaxDimensions(selected)
             scaleFactor == calculateScaleFactor(maxDimensions, ContainerNumbers(container),
                                                 NotGiven)
         IN [i \in 1..Len(selected) |->
                MountainTriangle(selected[i], scaleFactor, maxDimensions)]

\* the number a validated height or width is
NumberOf(v) == IF v.s = <<"Infinity">> THEN Infinite ELSE Integer(v.n)

\* the heights and widths that pass validation
ValidatedDimensions ==
    {NumberOf(v) : v \in {d \in DimensionValues \cup {Num(5)} : isValidPositiveNumber(d)}}

ValidatedMountains == [height : ValidatedDimensions, width : ValidatedDimensions]

\* the window sizes the view is resized to
WindowSizes == {vp \in Viewports : vp.width \in {400, 768, 1200} /\ vp.height \in {300, 800}}

(***************************************************************************)
(* Initial state: App mounted, nothing loaded, nothing selected.            *)
(***************************************************************************)
Init ==
    /\ mountains = << >>
    /\ loads = 0
    /\ selectedMountains = << >>
    /\ pending = << >>
    /\ lastToast = NoToast
    /\ cursor = 0
    /\ deviations = 0
    /\ loading = TRUE
    /\ error = "null"
    /\ abortControllerRef = 0
    /\ aborted = {}
    /\ mountainDataCache = 0
    /\ cacheTimestamp = 0
    /\ clock = TickMs
    /\ inflight = {}
    /\ started = 0
    /\ instance = 0
    /\ response = NoResponse
    /\ validated = NotRun
    /\ loaded = NotRun
    /\ subset = << >>
    /\ viewport = DefaultViewport
    /\ scaled = NotScaled
    /\ viewDimensions = InitialContainerDimensions
    /\ listening = FALSE
    /\ triangles = << >>

\* the same with a selection and a viewport for the scaling functions
InitScale ==
    /\ mountains = << >>
    /\ loads = 0
    /\ selectedMountains = << >>
    /\ pending = << >>
    /\ lastToast = NoToast
    /\ cursor = 0
    /\ deviations = 0
    /\ loading = TRUE
    /\ error = "null"
    /\ abortControllerRef = 0
    /\ aborted = {}
    /\ mountainDataCache = 0
    /\ cacheTimestamp = 0
    /\ clock = TickMs
    /\ inflight = {}
    /\ started = 0
    /\ instance = 0
    /\ response = NoResponse
    /\ validated = NotRun
    /\ loaded = NotRun
    /\ \/ subset \in Subsets /\ viewport = DefaultViewport
       \/ subset = Fixture /\ viewport \in Viewports
    /\ scaled = NotScaled
    /\ viewDimensions = InitialContainerDimensions
    /\ listening = FALSE
    /\ triangles = << >>

\* the same with a response on its way to the loader
InitLoader ==
    /\ mountains = << >>
    /\ loads = 0
    /\ selectedMountains = << >>
    /\ pending = << >>
    /\ lastToast = NoToast
    /\ cursor = 0
    /\ deviations = 0
    /\ loading = TRUE
    /\ error = "null"
    /\ abortControllerRef = 0
    /\ aborted = {}
    /\ mountainDataCache = 0
    /\ cacheTimestamp = 0
    /\ clock = TickMs
    /\ inflight = {}
    /\ started = 0
    /\ instance = 0
    /\ response \in Responses
    /\ validated = NotRun
    /\ loaded = NotRun
    /\ subset = << >>
    /\ viewport = DefaultViewport
    /\ scaled = NotScaled
    /\ viewDimensions = InitialContainerDimensions
    /\ listening = FALSE
    /\ triangles = << >>

(***************************************************************************)
(* MountainList.handleMountainClick, closed over the props of the last      *)
(* render.                                                                  *)
(***************************************************************************)
\* the same with a parsed dataset on its way to the validator
InitValidator ==
    /\ mountains = << >>
    /\ loads = 0
    /\ selectedMountains = << >>
    /\ pending = << >>
    /\ lastToast = NoToast
    /\ cursor = 0
    /\ deviations = 0
    /\ loading = TRUE
    /\ error = "null"
    /\ abortControllerRef = 0
    /\ aborted = {}
    /\ mountainDataCache = 0
    /\ cacheTimestamp = 0
    /\ clock = TickMs
    /\ inflight = {}
    /\ started = 0
    /\ instance = 0
    /\ response \in {Response("json", Body("array", ms)) : ms \in Arrays}
    /\ validated = NotRun
    /\ loaded = NotRun
    /\ subset = << >>
    /\ viewport = DefaultViewport
    /\ scaled = NotScaled
    /\ viewDimensions = InitialContainerDimensions
    /\ listening = FALSE
    /\ triangles = << >>

\* the same with ComparisonView rendered for the first time with a selection
\* of validated mountains
InitGeometry ==
    /\ mountains = << >>
    /\ loads = 0
    /\ selectedMountains = << >>
    /\ pending = << >>
    /\ lastToast = NoToast
    /\ cursor = 0
    /\ deviations = 0
    /\ loading = TRUE
    /\ error = "null"
    /\ abortControllerRef = 0
    /\ aborted = {}
    /\ mountainDataCache = 0
    /\ cacheTimestamp = 0
    /\ clock = TickMs
    /\ inflight = {}
    /\ started = 0
    /\ instance = 0
    /\ response = NoResponse
    /\ validated = NotRun
    /\ loaded = NotRun
    /\ subset \in UNION {[1..n -> ValidatedMountains] : n \in 1..MaxSelected}
    /\ viewport \in Viewports
    /\ scaled = NotScaled
    /\ viewDimensions = InitialContainerDimensions
    /\ listening = FALSE
    /\ triangles = ComparisonView(subset, viewDimensions)

\* the same with ComparisonView rendered for the first time in some window
InitView ==
    /\ mountains = << >>
    /\ loads = 0
    /\ selectedMountains = << >>
    /\ pending = << >>
    /\ lastToast = NoToast
    /\ cursor = 0
    /\ deviations = 0
    /\ loading = TRUE
    /\ error = "null"
    /\ abortControllerRef = 0
    /\ aborted = {}
    /\ mountainDataCache = 0
    /\ cacheTimestamp = 0
    /\ clock = TickMs
    /\ inflight = {}
    /\ started = 0
    /\ instance = 0
    /\ response = NoResponse
    /\ validated = NotRun
    /\ loaded = NotRun
    /\ subset = << >>
    /\ viewport \in WindowSizes
    /\ scaled = NotScaled
    /\ viewDimensions = InitialContainerDimensions
    /\ listening = FALSE
    /\ triangles = ComparisonView(subset, viewDimensions)

\* the user works down the list, from the last item back to the first
NextInList == (cursor % NumMountains) + 1

isAtMaxSelections == Len(selectedMountains) >= maxSelections

\* mutant: at the cap every click is dropped, on selected items too
ClickForwards_BlockAll(mountain) == ~ isAtMaxSelections

\* what the click hands to onMountainToggle: nothing when the item is disabled
ClickForwards(mountain) ==
    ~ (~ (mountain.id \in IdsOf(selectedMountains)) /\ isAtMaxSelections)

handleMountainClick(i) ==
    /\ i \in 1..Len(mountains)
    /\ Len(pending) < MaxPending
    /\ \/ /\ i = NextInList
          /\ UNCHANGED deviations
       \/ /\ i # NextInList
          /\ deviations < MaxDeviations
          /\ deviations' = deviations + 1
    /\ cursor' = i
    /\ pending' = IF ClickForwards(mountains[i])
                  THEN Append(pending, ToggleUpdate(mountains[i]))
                  ELSE pending
    /\ UNCHANGED <<mountains, loads, selectedMountains, lastToast, hookVars, loaderVars, scaleVars>>

(***************************************************************************)
(* Header.handleClearClick -> App.handleClearSelections.                    *)
(***************************************************************************)
handleClearSelections ==
    /\ Len(selectedMountains) > 0
    /\ Len(pending) < MaxPending
    /\ deviations < MaxDeviations
    /\ deviations' = deviations + 1
    /\ pending' = Append(pending, ClearUpdate)
    /\ lastToast' = Toast("success", "Selections cleared")
    /\ UNCHANGED <<mountains, loads, selectedMountains, cursor, hookVars, loaderVars, scaleVars>>

(***************************************************************************)
(* React render of App: runs the queued updates and commits the result.     *)
(***************************************************************************)
Render ==
    /\ pending # << >>
    /\ selectedMountains' = Rendered.sel
    /\ lastToast' = Rendered.toast
    /\ pending' = << >>
    /\ UNCHANGED <<mountains, loads, cursor, deviations, hookVars, loaderVars, scaleVars>>

(***************************************************************************)
(* useMountainData hands App a freshly loaded collection (setMountains);    *)
(* the render it causes also runs the queued selection updates.             *)
(***************************************************************************)
DataLoaded ==
    /\ loads < MaxLoads
    /\ \/ /\ loads = 0
          /\ UNCHANGED deviations
       \/ /\ loads > 0
          /\ deviations < MaxDeviations
          /\ deviations' = deviations + 1
    /\ loads' = loads + 1
    /\ mountains' = LoadedCollection(loads + 1)
    /\ selectedMountains' = Rendered.sel
    /\ lastToast' = Rendered.toast
    /\ pending' = << >>
    /\ UNCHANGED <<cursor, hookVars, loaderVars, scaleVars>>

Next ==
    \/ \E i \in 1..NumMountains : handleMountainClick(i)
    \/ handleClearSelections
    \/ Render
    \/ DataLoaded

Spec == Init /\ [][Next]_vars

(***************************************************************************)
(* useMountainData.  loadData runs to its await in one step; the fetch it   *)
(* awaits settles in a later step.  loadMountainData() is called without    *)
(* the AbortController's signal, so abort() reaches no fetch and no request *)
(* ever settles with an AbortError.                                         *)
(***************************************************************************)
UnexpectedMessage == "An unexpected error occurred while loading mountain data"

Outcomes == {"ok", "DataLoadError", "Error"}

\* mutant: a forced load is served from the cache as well
CacheFresh_IgnoresForce(forceRefresh) ==
    /\ mountainDataCache # 0
    /\ cacheTimestamp # 0
    /\ clock - cacheTimestamp < CACHE_DURATION

\* the cache check of loadData
CacheFresh(forceRefresh) ==
    /\ ~ forceRefresh
    /\ mountainDataCache # 0
    /\ cacheTimestamp # 0
    /\ clock - cacheTimestamp < CACHE_DURATION

\* loadData up to its return (cache hit) or its await (fetch started), on a
\* hook whose ref is ref, whose mountains are mts, and with ab the controllers
\* aborted so far
loadData(forceRefresh, ref, ab, mts) ==
    /\ error' = "null"
    /\ aborted' = IF ref # 0 THEN ab \cup {ref} ELSE ab
    /\ IF CacheFresh(forceRefresh)
       THEN /\ mountains' = LoadedCollection(mountainDataCache)
            /\ loading' = FALSE
            /\ abortControllerRef' = 0
            /\ UNCHANGED <<inflight, started>>
       ELSE /\ started < MaxRequests
            /\ loading' = TRUE
            /\ abortControllerRef' = started + 1
            /\ started' = started + 1
            /\ inflight' = inflight \cup {[id |-> started + 1, now |-> clock, inst |-> instance']}
            /\ mountains' = mts
    /\ UNCHANGED <<loads, mountainDataCache, cacheTimestamp, clock, selVars, loaderVars, scaleVars>>

\* the component mounts: fresh hook state, then the effect calls loadData();
\* unmounting the one before ran its cleanup, which aborts its controller
Mount ==
    /\ instance < MaxMounts
    /\ instance' = instance + 1
    /\ loadData(FALSE, 0,
                IF abortControllerRef # 0 THEN aborted \cup {abortControllerRef} ELSE aborted,
                << >>)

retry ==
    /\ instance > 0
    /\ UNCHANGED instance
    /\ loadData(TRUE, abortControllerRef, aborted, mountains)

\* mutant: no finally block, loading and the ref stay as they are
FetchSettles_NoFinally(r, outcome) ==
    /\ r \in inflight
    /\ inflight' = inflight \ {r}
    /\ IF outcome = "ok"
       THEN /\ loads < MaxLoads
            /\ loads' = loads + 1
            /\ mountainDataCache' = loads + 1
            /\ cacheTimestamp' = r.now
            /\ mountains' = IF r.inst = instance THEN LoadedCollection(loads + 1) ELSE mountains
            /\ UNCHANGED error
       ELSE /\ error' = IF r.inst # instance THEN error
                        ELSE IF outcome = "DataLoadError" THEN "DataLoadError message"
                        ELSE UnexpectedMessage
            /\ mountains' = IF r.inst = instance THEN << >> ELSE mountains
            /\ UNCHANGED <<loads, mountainDataCache, cacheTimestamp>>
    /\ UNCHANGED <<loading, abortControllerRef>>
    /\ UNCHANGED <<aborted, clock, started, instance, selVars, loaderVars, scaleVars>>

\* the fetch of request r settles and loadData resumes after its await; the
\* setters of an unmounted hook do nothing, the module cache is shared
FetchSettles(r, outcome) ==
    /\ r \in inflight
    /\ inflight' = inflight \ {r}
    /\ IF outcome = "ok"
       THEN /\ loads < MaxLoads
            /\ loads' = loads + 1
            /\ mountainDataCache' = loads + 1
            /\ cacheTimestamp' = r.now
            /\ mountains' = IF r.inst = instance THEN LoadedCollection(loads + 1) ELSE mountains
            /\ UNCHANGED error
       ELSE /\ error' = IF r.inst # instance THEN error
                        ELSE IF outcome = "DataLoadError" THEN "DataLoadError message"
                        ELSE UnexpectedMessage
            /\ mountains' = IF r.inst = instance THEN << >> ELSE mountains
            /\ UNCHANGED <<loads, mountainDataCache, cacheTimestamp>>
    /\ loading' = IF r.inst = instance THEN FALSE ELSE loading
    /\ abortControllerRef' = IF r.inst = instance THEN 0 ELSE abortControllerRef
    /\ UNCHANGED <<aborted, clock, started, instance, selVars, loaderVars, scaleVars>>

Tick ==
    /\ clock < TickMs * (MaxTicks + 1)
    /\ clock' = clock + TickMs
    /\ UNCHANGED <<mountains, loads, selVars, loading, error, abortControllerRef, aborted,
                   mountainDataCache, cacheTimestamp, inflight, started, instance, loaderVars, scaleVars>>

NextHook ==
    \/ Mount
    \/ retry
    \/ \E r \in inflight, outcome \in Outcomes : FetchSettles(r, outcome)
    \/ Tick

SpecHook == Init /\ [][NextHook]_vars

\* App renders the 'Try Again' button, whose handler calls retry(), only in
\* its error state: loading is false and error is set
TryAgain ==
    /\ ~ loading
    /\ error # "null"
    /\ retry

NextApp ==
    \/ Mount
    \/ TryAgain
    \/ \E r \in inflight, outcome \in Outcomes : FetchSettles(r, outcome)
    \/ Tick

\* useMountainData as App drives it; every fetch settles in the end
SpecApp ==
    /\ Init
    /\ [][NextApp]_vars
    /\ WF_vars(\E r \in inflight, outcome \in Outcomes : FetchSettles(r, outcome))

(***************************************************************************)
(* The validator and the loader run on the response.                        *)
(***************************************************************************)
ValidateData ==
    /\ response.kind = "json"
    /\ validated = NotRun
    /\ validated' = validateMountainData(response.body)
    /\ UNCHANGED <<mountains, loads, selVars, hookVars, response, loaded, scaleVars>>

LoadMountainData ==
    /\ loaded = NotRun
    /\ loaded' = loadMountainData(response)
    /\ UNCHANGED <<mountains, loads, selVars, hookVars, response, validated, scaleVars>>

NextLoader ==
    \/ ValidateData
    \/ LoadMountainData

SpecLoader == InitLoader /\ [][NextLoader]_vars

SpecValidator == InitValidator /\ [][NextLoader]_vars

(***************************************************************************)
(* ComparisonView: its effect, a window resize, a new selection from App;   *)
(* each with the render that follows it.                                    *)
(***************************************************************************)
\* useEffect: updateDimensions(), addEventListener('resize', updateDimensions)
ViewEffect ==
    /\ ~ listening
    /\ listening' = TRUE
    /\ viewDimensions' =
           calculateContainerDimensions(viewport.width, viewport.height, NoPadding)
    /\ triangles' = ComparisonView(subset, viewDimensions')
    /\ UNCHANGED <<mountains, loads, selVars, hookVars, loaderVars, subset, viewport, scaled>>

\* the window is resized: updateDimensions
Resize(vp) ==
    /\ listening
    /\ vp # viewport
    /\ viewport' = vp
    /\ viewDimensions' = calculateContainerDimensions(vp.width, vp.height, NoPadding)
    /\ triangles' = ComparisonView(subset, viewDimensions')
    /\ UNCHANGED <<mountains, loads, selVars, hookVars, loaderVars, subset, scaled, listening>>

\* App renders with a mountain added to the selection
SelectionGrows(mountain) ==
    /\ listening
    /\ Len(subset) < MaxSelected
    /\ subset' = Append(subset, mountain)
    /\ triangles' = ComparisonView(subset', viewDimensions)
    /\ UNCHANGED <<mountains, loads, selVars, hookVars, loaderVars, viewport, scaled,
                   viewDimensions, listening>>

\* App renders with a mountain removed from the selection
SelectionShrinks(i) ==
    /\ listening
    /\ i \in 1..Len(subset)
    /\ subset' = SubSeq(subset, 1, i - 1) \o SubSeq(subset, i + 1, Len(subset))
    /\ triangles' = ComparisonView(subset', viewDimensions)
    /\ UNCHANGED <<mountains, loads, selVars, hookVars, loaderVars, viewport, scaled,
                   viewDimensions, listening>>

NextView ==
    \/ ViewEffect
    \/ \E vp \in WindowSizes : Resize(vp)
    \/ \E mountain \in ScalableMountains : SelectionGrows(mountain)
    \/ \E i \in 1..MaxSelected : SelectionShrinks(i)

SpecView == InitView /\ [][NextView]_vars

SpecGeometry == InitGeometry /\ [][NextView]_vars

(***************************************************************************)
(* The scaling functions run on the selection and the viewport.             *)
(***************************************************************************)
CalculateMaxDimensions ==
    /\ scaled = NotScaled
    /\ scaled' = [NotScaled EXCEPT !.fn = "calculateMaxDimensions",
                                   !.maxDimensions = calculateMaxDimensions(subset)]
    /\ UNCHANGED <<mountains, loads, selVars, hookVars, loaderVars, subset, viewport,
                   viewDimensions, listening, triangles>>

CalculateContainerDimensions(padding) ==
    /\ scaled = NotScaled
    /\ scaled' = [NotScaled EXCEPT
                     !.fn = "calculateContainerDimensions",
                     !.padding = padding,
                     !.containerDimensions =
                         calculateContainerDimensions(viewport.width, viewport.height, padding)]
    /\ UNCHANGED <<mountains, loads, selVars, hookVars, loaderVars, subset, viewport,
                   viewDimensions, listening, triangles>>

CalculateScaleFactor(container, marginRatio) ==
    /\ scaled = NotScaled
    /\ scaled' = [NotScaled EXCEPT
                     !.fn = "calculateScaleFactor",
                     !.container = container,
                     !.marginRatio = marginRatio,
                     !.maxDimensions = calculateMaxDimensions(subset),
                     !.scaleFactor =
                         calculateScaleFactor(calculateMaxDimensions(subset), container,
                                              marginRatio)]
    /\ UNCHANGED <<mountains, loads, selVars, hookVars, loaderVars, subset, viewport,
                   viewDimensions, listening, triangles>>

CreateScaleConfig(padding) ==
    /\ scaled = NotScaled
    /\ scaled' = [NotScaled EXCEPT
                     !.fn = "createScaleConfig",
                     !.padding = padding,
                     !.scaleConfig =
                         createScaleConfig(subset, viewport.width, viewport.height, padding)]
    /\ UNCHANGED <<mountains, loads, selVars, hookVars, loaderVars, subset, viewport,
                   viewDimensions, listening, triangles>>

GenerateTrianglePath(i, scaleFactor) ==
    /\ scaled = NotScaled
    /\ i \in 1..Len(subset)
    /\ scaled' = [NotScaled EXCEPT
                     !.fn = "generateTrianglePath",
                     !.mountain = subset[i],
                     !.scaleFactorArg = scaleFactor,
                     !.path = generateTrianglePath(subset[i], scaleFactor)]
    /\ UNCHANGED <<mountains, loads, selVars, hookVars, loaderVars, subset, viewport,
                   viewDimensions, listening, triangles>>

CalculateSVGViewBox(scaleFactor, spacing) ==
    /\ scaled = NotScaled
    /\ scaled' = [NotScaled EXCEPT
                     !.fn = "calculateSVGViewBox",
                     !.scaleFactorArg = scaleFactor,
                     !.spacing = spacing,
                     !.viewBox = calculateSVGViewBox(subset, scaleFactor, spacing)]
    /\ UNCHANGED <<mountains, loads, selVars, hookVars, loaderVars, subset, viewport,
                   viewDimensions, listening, triangles>>

NextScale ==
    \/ CalculateMaxDimensions
    \/ \E padding \in Paddings : CalculateContainerDimensions(padding)
    \/ \E container \in Containers, marginRatio \in MarginRatios :
          CalculateScaleFactor(container, marginRatio)
    \/ \E padding \in Paddings : CreateScaleConfig(padding)
    \/ \E i \in 1..(MaxSelected + 1), scaleFactor \in ScaleFactors :
          GenerateTrianglePath(i, scaleFactor)
    \/ \E scaleFactor \in ScaleFactors, spacing \in Spacings :
          CalculateSVGViewBox(scaleFactor, spacing)

SpecScale == InitScale /\ [][NextScale]_vars

(***************************************************************************)
(* Properties of the selection store.  Every selection a queued update is   *)
(* handed or yields is also the selection of the render that follows it, so *)
(* the properties of the updater as a function are stated on the states     *)
(* with nothing queued, for every Mountain object it may be handed.         *)
(***************************************************************************)
\* every selection a queued update is handed or yields, the rendered one included
Selections ==
    {ProcessQueue(SubSeq(pending, 1, k), [sel |-> selectedMountains, toast |-> lastToast]).sel :
        k \in 0..Len(pending)}

RemoveAt(s, k) == SubSeq(s, 1, k - 1) \o SubSeq(s, k + 1, Len(s))

NoDuplicateIds(s) == Cardinality(IdsOf(s)) = Len(s)

\* C1: after any sequence of toggles and clears, queued from a stale rendering
\* or not, the selection never holds more than 10 entities.
C1_SelectionWithinCap == \A s \in Selections : Len(s) <= 10

\* two toggles of distinct unselected entities are queued from a rendering
\* that shows 9 selected, and the second is turned down
C1_Witness ==
    /\ Len(selectedMountains) = 9
    /\ Len(pending) = 2
    /\ pending[1].kind = "toggle" /\ pending[2].kind = "toggle"
    /\ pending[1].m.id # pending[2].m.id
    /\ pending[1].m.id \notin IdsOf(selectedMountains)
    /\ pending[2].m.id \notin IdsOf(selectedMountains)
    /\ Len(Rendered.sel) = 10
    /\ Rendered.toast.title = "Selection limit reached"

\* C2: no two selected entities share an id, and toggling any object that
\* carries a selected id removes the selected entity instead of adding one.
C2_UniqueIds ==
    /\ \A s \in Selections : NoDuplicateIds(s)
    /\ pending = << >> => \A m \in Mountain :
          m.id \in IdsOf(selectedMountains) =>
             /\ m.id \notin IdsOf(handleMountainToggle(selectedMountains, m))
             /\ Len(handleMountainToggle(selectedMountains, m)) = Len(selectedMountains) - 1

\* a reloaded object is toggled while the object of an earlier load with the
\* same id is selected, and the render takes that one out
C2_Witness ==
    /\ Len(pending) = 1
    /\ pending[1].kind = "toggle"
    /\ \E i \in 1..Len(selectedMountains) :
          /\ selectedMountains[i].id = pending[1].m.id
          /\ selectedMountains[i].obj # pending[1].m.obj
    /\ Rendered.sel = SelectSeq(selectedMountains, LAMBDA x : x.id # pending[1].m.id)
    /\ Len(Rendered.sel) = Len(selectedMountains) - 1

\* C3: toggle removes exactly the entity with that id, wherever it stands, and
\* keeps the order of the others; an unselected entity is appended at the end
\* when fewer than 10 are selected.
C3_ToggleContract ==
    pending = << >> => \A m \in Mountain :
        LET prev == selectedMountains
            res  == handleMountainToggle(prev, m)
        IN  /\ m.id \in IdsOf(prev) =>
                 \E k \in 1..Len(prev) : prev[k].id = m.id /\ res = RemoveAt(prev, k)
            /\ (m.id \notin IdsOf(prev) /\ Len(prev) < 10) =>
                 /\ Len(res) = Len(prev) + 1
                 /\ res[Len(res)] = m
                 /\ SubSeq(res, 1, Len(prev)) = prev

\* an entity was taken out of the middle of a selection and the render kept
\* the others in order
C3_Witness ==
    /\ pending = << >>
    /\ lastToast.title = "Mountain removed"
    /\ Len(selectedMountains) = 9
    /\ \E k \in 2..9 :
          /\ \A i \in 1..(k - 1) : selectedMountains[i].id = i
          /\ \A i \in k..9 : selectedMountains[i].id = i + 1

\* C4: toggling an unselected id on a selection of 10 leaves the selection as
\* it is and raises a warning, not an error.
C4_RejectAtCap ==
    \A s \in Selections : Len(s) = 10 =>
        \A m \in Mountain : m.id \notin IdsOf(s) =>
            /\ handleMountainToggle(s, m) = s
            /\ ToggleToast(s, m).type = "warning"

\* a toggle of an eleventh entity ran on a full selection and was turned down
C4_Witness ==
    /\ pending = << >>
    /\ Len(selectedMountains) = 10
    /\ lastToast = Toast("warning", "Selection limit reached")

\* C5 as stated: toggling the same entity twice restores the same sequence.
C5_ToggleTwiceRestoresSequence ==
    pending = << >> => \A m \in Mountain :
        handleMountainToggle(handleMountainToggle(selectedMountains, m), m) = selectedMountains

\* C5 as amended: toggling the same entity twice restores the set of selected
\* ids and the size; the sequence is restored when the id was not selected,
\* and otherwise the entity ends up last with the others in their order.
C5_ToggleTwice ==
    pending = << >> => \A m \in Mountain :
        LET prev == selectedMountains
            res  == handleMountainToggle(handleMountainToggle(prev, m), m)
        IN  /\ IdsOf(res) = IdsOf(prev)
            /\ Len(res) = Len(prev)
            /\ m.id \notin IdsOf(prev) => res = prev
            /\ m.id \in IdsOf(prev) =>
                 /\ res[Len(res)] = m
                 /\ \E k \in 1..Len(prev) :
                       prev[k].id = m.id /\ SubSeq(res, 1, Len(res) - 1) = RemoveAt(prev, k)

\* the same selected entity is toggled twice in a row and comes back last
C5_Witness ==
    /\ Len(pending) = 2
    /\ pending[1] = pending[2]
    /\ pending[1].kind = "toggle"
    /\ Len(selectedMountains) >= 2
    /\ selectedMountains[1].id = pending[1].m.id
    /\ Rendered.sel # selectedMountains
    /\ Rendered.sel[Len(Rendered.sel)] = pending[1].m

\* C6: with 10 selected, a click on a selected item reaches App and leaves 9
\* selected; only clicks on unselected items are dropped.
C6_CapBlocksOnlyAdditions ==
    Len(selectedMountains) = 10 =>
        \A i \in 1..Len(mountains) :
            IF mountains[i].id \in IdsOf(selectedMountains)
            THEN /\ ClickForwards(mountains[i])
                 /\ Len(handleMountainToggle(selectedMountains, mountains[i])) = 9
            ELSE ~ ClickForwards(mountains[i])

\* with 10 selected a click on a selected item was forwarded and removes it
C6_Witness ==
    /\ Len(selectedMountains) = 10
    /\ Len(pending) = 1
    /\ pending[1].kind = "toggle"
    /\ pending[1].m.id \in IdsOf(selectedMountains)
    /\ Len(Rendered.sel) = 9

\* C7: once handleClearSelections has queued its update, the selection that
\* update yields is empty whatever it is applied to, and the handler leaves
\* the loaded dataset alone.
C7_ClearEmpties ==
    [][(pending' = Append(pending, ClearUpdate)) =>
          /\ Rendered'.sel = << >>
          /\ mountains' = mountains]_vars

\* a clear was rendered on a full selection
C7_Witness ==
    /\ pending = << >>
    /\ selectedMountains = << >>
    /\ lastToast.title = "Selections cleared"
    /\ cursor = 10

(***************************************************************************)
(* Properties of useMountainData.                                           *)
(***************************************************************************)
\* a request of the mounted hook after which the hook started another fetch
Superseded(r) == r.inst = instance /\ r.id < started

\* C8: last request started wins: when the fetch of a superseded request
\* settles, with data or with an error, mountains, error, loading and the
\* cache stay as they are.
C8_StaleCompletionDiscarded ==
    [][\A r \in inflight :
          (r \notin inflight' /\ Superseded(r)) =>
              /\ mountains' = mountains
              /\ error' = error
              /\ loading' = loading
              /\ mountainDataCache' = mountainDataCache
              /\ cacheTimestamp' = cacheTimestamp]_vars

(***************************************************************************)
(* Properties of the validator and the loader.                              *)
(***************************************************************************)
\* non-empty, ids pairwise distinct, every height and width finite and > 0
ValidCollection(ms) ==
    /\ Len(ms) > 0
    /\ \A i, j \in 1..Len(ms) : ms[i].id = ms[j].id => i = j
    /\ \A i \in 1..Len(ms) :
          /\ isFinite(ms[i].height) /\ ms[i].height.n > 0
          /\ isFinite(ms[i].width) /\ ms[i].width.n > 0

\* C9: every collection a successful validateMountainData or
\* loadMountainData returns is non-empty, has pairwise distinct ids, and its
\* heights and widths are finite numbers greater than 0.
C9_ReturnedCollectionValid ==
    /\ validated.status = "returned" => ValidCollection(validated.value)
    /\ loaded.status = "returned" => ValidCollection(loaded.value)

\* elements i < j of the array are objects with the same non-empty string id
SameId(ms, i, j) ==
    /\ i < j
    /\ ms[i].isObject /\ ms[j].isObject
    /\ isValidString(ms[i].id)
    /\ ms[i].id = ms[j].id

HasDuplicateId(ms) == \E i, j \in 1..Len(ms) : SameId(ms, i, j)

\* the first element that repeats the id of an element before it
FirstRepeat(ms) ==
    CHOOSE j \in 1..Len(ms) :
        /\ \E i \in 1..Len(ms) : SameId(ms, i, j)
        /\ \A k \in 1..(j - 1) : ~ \E i \in 1..Len(ms) : SameId(ms, i, k)

\* validateMountainData has run on a mountains array
ValidatedArray == validated # NotRun /\ response.body.kind = "array"

\* C10: a collection in which two elements share an id fails validation
\* with a ValidationError of field 'id' that carries the duplicated id in
\* its message and the index of the later of the two elements.
C10_DuplicateIdReported ==
    (ValidatedArray /\ HasDuplicateId(response.body.mountains)) =>
        /\ validated.status = "threw"
        /\ validated.err.name = "ValidationError"
        /\ validated.err.field = "id"
        /\ validated.err.text = "Duplicate mountain ID"
        /\ \E i, j \in 1..Len(response.body.mountains) :
              /\ SameId(response.body.mountains, i, j)
              /\ validated.err.id = response.body.mountains[j].id.s
              /\ validated.err.index = j - 1

\* C10 (amended): a collection in which two elements share an id always
\* fails with a ValidationError; when every element up to and including the
\* first one that repeats an earlier id passes the checks of validateMountain,
\* the error is the duplicate error: field 'id', that id in the message and
\* the index of that element.
C10_DuplicateIdReportedWhenReached ==
    (ValidatedArray /\ HasDuplicateId(response.body.mountains)) =>
        /\ validated.status = "threw"
        /\ validated.err.name = "ValidationError"
        /\ (\A k \in 1..FirstRepeat(response.body.mountains) :
                validateMountain(response.body.mountains[k], k - 1) = NoError)
           => validated.err =
                 ValidationError("Duplicate mountain ID",
                                 response.body.mountains[FirstRepeat(response.body.mountains)].id.s,
                                 "id", FirstRepeat(response.body.mountains) - 1)

\* the third element repeats the id of the first and validation reported it
C10_Witness ==
    /\ ValidatedArray
    /\ Len(response.body.mountains) = 3
    /\ SameId(response.body.mountains, 1, 3)
    /\ validated.err.text = "Duplicate mountain ID"
    /\ validated.err.index = 2

\* zero, negative, NaN or not a number
BadDimension(v) == v.t # "number" \/ isNaN(v) \/ (isFinite(v) /\ v.n <= 0)

\* element i of the array is an object with such a height or width
HasBadDimension(ms, i) ==
    ms[i].isObject /\ (BadDimension(ms[i].height) \/ BadDimension(ms[i].width))

\* the dimension validateMountain looks at first among the bad ones
FirstBadDimension(m) == IF BadDimension(m.height) THEN "height" ELSE "width"

\* C11: a collection with an element whose height or width is zero,
\* negative, NaN or not a number fails validation with a ValidationError
\* whose field names that dimension and whose index is the position of that
\* element.
C11_BadDimensionReported ==
    (ValidatedArray /\ \E i \in 1..Len(response.body.mountains) :
                          HasBadDimension(response.body.mountains, i)) =>
        /\ validated.status = "threw"
        /\ validated.err.name = "ValidationError"
        /\ \E i \in 1..Len(response.body.mountains) :
              /\ HasBadDimension(response.body.mountains, i)
              /\ validated.err.index = i - 1
              /\ \/ validated.err.field = "height" /\ BadDimension(response.body.mountains[i].height)
                 \/ validated.err.field = "width" /\ BadDimension(response.body.mountains[i].width)

\* nothing is reported before the dimensions of element i are looked at: the
\* elements before it pass validateMountain and repeat no id, and element i
\* has a valid id and name
ReachesDimensions(ms, i) ==
    /\ \A k \in 1..(i - 1) : validateMountain(ms[k], k - 1) = NoError
    /\ \A j, k \in 1..(i - 1) : ms[j].id = ms[k].id => j = k
    /\ isValidString(ms[i].id)
    /\ isValidString(ms[i].name)

\* C11 (amended): such a collection always fails with a ValidationError; the
\* error names the dimension (height before width) and the index of the
\* element when nothing else is reported first, that is when every element
\* before it is valid with an id not seen earlier and the element's own id
\* and name are valid.
C11_BadDimensionReportedWhenReached ==
    ValidatedArray =>
        \A i \in 1..Len(response.body.mountains) :
            HasBadDimension(response.body.mountains, i) =>
                /\ validated.status = "threw"
                /\ validated.err.name = "ValidationError"
                /\ ReachesDimensions(response.body.mountains, i) =>
                      /\ validated.err.field = FirstBadDimension(response.body.mountains[i])
                      /\ validated.err.index = i - 1

\* the second element has a bad width and validation reported it
C11_Witness ==
    /\ ValidatedArray
    /\ Len(response.body.mountains) >= 2
    /\ BadDimension(response.body.mountains[2].width)
    /\ validated.err.field = "width"
    /\ validated.err.index = 1

\* the ways loadMountainData can fail on a response
LoadFails(resp) == resp.kind # "json" \/ validateMountainData(resp.body).status = "threw"

\* C12: every failure of loadMountainData (fetch rejecting, a non-OK
\* status, an unparseable body, an invalid dataset, anything else) rejects
\* with a DataLoadError and nothing else, and it resolves only with what
\* validateMountainData returned for the body.
C12_LoaderRejectsWithDataLoadError ==
    loaded.status # "not run" =>
        /\ LoadFails(response) => loaded.status = "threw"
        /\ loaded.status = "threw" => loaded.err.name = "DataLoadError"
        /\ loaded.status = "returned" =>
              /\ response.kind = "json"
              /\ validateMountainData(response.body) = Returned(loaded.value)

\* the loader rejected on a dataset that failed validation
C12_Witness ==
    /\ loaded.status = "threw"
    /\ response.kind = "json"
    /\ validateMountainData(response.body).status = "threw"
    /\ loaded.err.name = "DataLoadError"
    /\ loaded.err.cause.name = "ValidationError"

\* fetch itself rejected: the request did not get to the dataset source or back
TransportFailure(resp) ==
    resp.kind \in {"fetch rejects: TypeError, Failed to fetch",
                   "fetch rejects: TypeError, Load failed"}

\* C13: the failure kinds stay distinguishable to the caller of the loader:
\* every transport failure is reported as the network-error kind (retryable),
\* an unparseable body as the malformed-format kind and an invalid dataset as
\* the validation kind (not retryable).
C13_FailureKindsDistinguishable ==
    loaded.status = "threw" =>
        /\ TransportFailure(response) =>
              loaded.err.message = "Network error: Unable to fetch mountain data"
        /\ response.kind = "json rejects: SyntaxError" =>
              loaded.err.message = "Invalid JSON format in mountain data"
        /\ response.kind = "json" => loaded.err.message = "Data validation failed"

(***************************************************************************)
(* Properties of the scaling functions.                                     *)
(***************************************************************************)
\* the margin ratio a call of calculateScaleFactor works with
MarginOf(marginRatio) == IF marginRatio.given THEN marginRatio.value ELSE DefaultMarginRatio

RECURSIVE GCD(_, _)
GCD(a, b) == IF b = 0 THEN a ELSE GCD(b, a % b)

\* the fraction n/d in lowest terms, n >= 0, d > 0
Fraction(n, d) == [n |-> n \div GCD(n, d), d |-> d \div GCD(n, d)]

\* x < y for fractions
Below(x, y) == x.n * (y.d \div GCD(x.d, y.d)) < y.n * (x.d \div GCD(x.d, y.d))

\* side * (1 - 2m) as a fraction, without rounding
Available(side, m) == Fraction(side.n * (m.d - 2 * m.n), side.d * m.d)

\* the relative error a handful of roundings can add up to: 2^(3 - Precision)
RoundingEpsilon == [n |-> 1, d |-> Pow2(Precision - 3)]

\* x <= y * (1 + RoundingEpsilon), x and y fractions with positive denominators
AtMostUpToRounding(x, y) ==
    x.n * (y.d \div GCD(x.d, y.d)) * RoundingEpsilon.d
        <= y.n * (RoundingEpsilon.d + RoundingEpsilon.n) * (x.d \div GCD(x.d, y.d))

\* C14: with the scale factor of a non-empty selection in a container with
\* margin ratio m, 0 <= m < 0.5, every selected mountain fits in both axes:
\* height * s <= containerHeight * (1 - 2m) and width * s <= containerWidth *
\* (1 - 2m), up to rounding.
C14_EveryMountainFits ==
    (scaled.fn = "calculateScaleFactor" /\ Len(subset) > 0) =>
        \A i \in 1..Len(subset) :
            /\ AtMostUpToRounding(
                   calculateScaledDimensions(subset[i], scaled.scaleFactor).scaledHeight,
                   Available(scaled.container.containerHeight, MarginOf(scaled.marginRatio)))
            /\ AtMostUpToRounding(
                   calculateScaledDimensions(subset[i], scaled.scaleFactor).scaledWidth,
                   Available(scaled.container.containerWidth, MarginOf(scaled.marginRatio)))

\* a scale factor was computed for two mountains, the taller one the narrower
C14_Witness ==
    /\ scaled.fn = "calculateScaleFactor"
    /\ Len(subset) = 2
    /\ LessThan(subset[1].height, subset[2].height)
    /\ LessThan(subset[2].width, subset[1].width)
    /\ scaled.marginRatio = Given(Real(1, 4))
    /\ scaled.scaleFactor # Zero

\* the margin ratio the claim gives a call: 0.1 when none is passed
ClaimedMargin(marginRatio) == IF marginRatio.given THEN marginRatio.value ELSE Round(1, 10)

\* a / b as a fraction, without rounding, b > 0
Quotient(a, b) == Fraction(a.n * b.d, a.d * b.n)

\* min(containerWidth * (1 - 2m) / maxWidth, containerHeight * (1 - 2m) /
\* maxHeight), without rounding
ExactScale(maxDimensions, container, m) ==
    IF Below(Quotient(Available(container.containerHeight, m), maxDimensions.maxHeight),
             Quotient(Available(container.containerWidth, m), maxDimensions.maxWidth))
    THEN Quotient(Available(container.containerHeight, m), maxDimensions.maxHeight)
    ELSE Quotient(Available(container.containerWidth, m), maxDimensions.maxWidth)

\* the margin-adjusted sides as calculateScaleFactor computes them
availableWidth(container, m) ==
    Times(container.containerWidth, Minus(Integer(1), Times(m, Integer(2))))

availableHeight(container, m) ==
    Times(container.containerHeight, Minus(Integer(1), Times(m, Integer(2))))

\* C15: calculateScaleFactor returns 0 when maxHeight or maxWidth is 0;
\* otherwise min(containerWidth*(1-2m)/maxWidth, containerHeight*(1-2m)/
\* maxHeight), m being 0.1 by default, and at least one axis of the largest
\* extent exactly fills the margin-adjusted container.
C15_ScaleFactorFillsExactly ==
    scaled.fn = "calculateScaleFactor" =>
        IF scaled.maxDimensions.maxHeight = Zero \/ scaled.maxDimensions.maxWidth = Zero
        THEN scaled.scaleFactor = Zero
        ELSE /\ scaled.scaleFactor =
                   MathMin(Divide(availableWidth(scaled.container,
                                                 ClaimedMargin(scaled.marginRatio)),
                                  scaled.maxDimensions.maxWidth),
                           Divide(availableHeight(scaled.container,
                                                  ClaimedMargin(scaled.marginRatio)),
                                  scaled.maxDimensions.maxHeight))
             /\ \/ Times(scaled.maxDimensions.maxWidth, scaled.scaleFactor) =
                      availableWidth(scaled.container, ClaimedMargin(scaled.marginRatio))
                \/ Times(scaled.maxDimensions.maxHeight, scaled.scaleFactor) =
                      availableHeight(scaled.container, ClaimedMargin(scaled.marginRatio))

\* x and y are equal up to rounding
EqualUpToRounding(x, y) == AtMostUpToRounding(x, y) /\ AtMostUpToRounding(y, x)

\* C15 (amended): calculateScaleFactor returns 0 when maxHeight or maxWidth
\* is 0; otherwise the floating-point value of min(containerWidth*(1-2m)/
\* maxWidth, containerHeight*(1-2m)/maxHeight), m being 0.1 by default, which
\* equals the exact minimum up to rounding, and at least one axis of the
\* largest extent fills the margin-adjusted container up to rounding.
C15_ScaleFactorFills ==
    scaled.fn = "calculateScaleFactor" =>
        IF scaled.maxDimensions.maxHeight = Zero \/ scaled.maxDimensions.maxWidth = Zero
        THEN scaled.scaleFactor = Zero
        ELSE /\ EqualUpToRounding(scaled.scaleFactor,
                                  ExactScale(scaled.maxDimensions, scaled.container,
                                             ClaimedMargin(scaled.marginRatio)))
             /\ \/ EqualUpToRounding(
                       Times(scaled.maxDimensions.maxWidth, scaled.scaleFactor),
                       Available(scaled.container.containerWidth,
                                 ClaimedMargin(scaled.marginRatio)))
                \/ EqualUpToRounding(
                       Times(scaled.maxDimensions.maxHeight, scaled.scaleFactor),
                       Available(scaled.container.containerHeight,
                                 ClaimedMargin(scaled.marginRatio)))

\* a scale factor was computed with the default margin ratio, the height
\* deciding it
C15_Witness ==
    /\ scaled.fn = "calculateScaleFactor"
    /\ ~ scaled.marginRatio.given
    /\ scaled.scaleFactor # Zero
    /\ scaled.scaleFactor =
          Divide(availableHeight(scaled.container, DefaultMarginRatio),
                 scaled.maxDimensions.maxHeight)
    /\ scaled.scaleFactor #
          Divide(availableWidth(scaled.container, DefaultMarginRatio),
                 scaled.maxDimensions.maxWidth)

\* the factors k > 0 of a uniform rescaling
RescaleFactors == {Integer(2), Integer(3), Integer(4), Integer(10), Real(1, 2), Real(3, 4)}

PowersOfTwo == {Integer(2), Integer(4), Real(1, 2)}

\* k * x is a floating-point number, so that the rescaled value is k * x itself
ExactProduct(k, x) == Times(k, x) = Fraction(k.n * x.n, k.d * x.d)

ExactlyRescalable(k, maxDimensions, container) ==
    /\ ExactProduct(k, maxDimensions.maxHeight)
    /\ ExactProduct(k, maxDimensions.maxWidth)
    /\ ExactProduct(k, container.containerWidth)
    /\ ExactProduct(k, container.containerHeight)

\* the scale factor after multiplying the four lengths by k
RescaledScaleFactor(k, maxDimensions, container, marginRatio) ==
    calculateScaleFactor(
        [maxHeight |-> Times(k, maxDimensions.maxHeight),
         maxWidth |-> Times(k, maxDimensions.maxWidth)],
        [containerWidth |-> Times(k, container.containerWidth),
         containerHeight |-> Times(k, container.containerHeight)],
        marginRatio)

\* C16: multiplying maxHeight, maxWidth, containerWidth and containerHeight
\* all by the same k > 0 leaves the scale factor unchanged.
C16_RescalingLeavesScaleUnchanged ==
    scaled.fn = "calculateScaleFactor" =>
        \A k \in RescaleFactors :
            ExactlyRescalable(k, scaled.maxDimensions, scaled.container) =>
                RescaledScaleFactor(k, scaled.maxDimensions, scaled.container,
                                    scaled.marginRatio) = scaled.scaleFactor

\* C16 (amended): multiplying the four lengths by the same k > 0 leaves the
\* scale factor unchanged up to rounding, and exactly unchanged when k is a
\* power of two.
C16_RescalingLeavesScaleUnchangedUpToRounding ==
    scaled.fn = "calculateScaleFactor" =>
        \A k \in RescaleFactors :
            ExactlyRescalable(k, scaled.maxDimensions, scaled.container) =>
                /\ EqualUpToRounding(
                       RescaledScaleFactor(k, scaled.maxDimensions, scaled.container,
                                           scaled.marginRatio),
                       scaled.scaleFactor)
                /\ k \in PowersOfTwo =>
                       RescaledScaleFactor(k, scaled.maxDimensions, scaled.container,
                                           scaled.marginRatio) = scaled.scaleFactor

\* a scale factor that tripling the four lengths changes in its last place
C16_Witness ==
    /\ scaled.fn = "calculateScaleFactor"
    /\ scaled.scaleFactor # Zero
    /\ ExactlyRescalable(Integer(3), scaled.maxDimensions, scaled.container)
    /\ RescaledScaleFactor(Integer(3), scaled.maxDimensions, scaled.container,
                           scaled.marginRatio) # scaled.scaleFactor
    /\ RescaledScaleFactor(Integer(2), scaled.maxDimensions, scaled.container,
                           scaled.marginRatio) = scaled.scaleFactor

\* v is the largest of the values
IsMaximum(v, values) == v \in values /\ \A x \in values : ~ LessThan(v, x)

\* C17: calculateMaxDimensions returns {maxHeight: 0, maxWidth: 0} for an
\* empty list and otherwise the maximum height and the maximum width over all
\* mountains, each taken on its own, and leaves the list it was given as it was.
C17_MaxDimensions ==
    /\ [](scaled.fn = "calculateMaxDimensions" =>
            IF Len(subset) = 0
            THEN scaled.maxDimensions = [maxHeight |-> Zero, maxWidth |-> Zero]
            ELSE /\ IsMaximum(scaled.maxDimensions.maxHeight,
                              {subset[i].height : i \in 1..Len(subset)})
                 /\ IsMaximum(scaled.maxDimensions.maxWidth,
                              {subset[i].width : i \in 1..Len(subset)}))
    /\ [][scaled'.fn = "calculateMaxDimensions" => subset' = subset]_vars

\* the maxima of two mountains, the taller one the narrower
C17_Witness ==
    /\ scaled.fn = "calculateMaxDimensions"
    /\ Len(subset) = 2
    /\ LessThan(subset[1].height, subset[2].height)
    /\ LessThan(subset[2].width, subset[1].width)
    /\ scaled.maxDimensions = [maxHeight |-> subset[2].height, maxWidth |-> subset[1].width]

\* the breakpoint a viewport width falls in
BreakpointOf(viewportWidth) ==
    IF viewportWidth <= 480 THEN "mobile"
    ELSE IF viewportWidth <= 768 THEN "tablet"
    ELSE IF viewportWidth <= 1024 THEN "small desktop"
    ELSE "large desktop"

\* minimum width and height of each breakpoint
Floor ==
    [b \in {"mobile", "tablet", "small desktop", "large desktop"} |->
        IF b = "mobile" THEN [width |-> 280, height |-> 200]
        ELSE IF b = "tablet" THEN [width |-> 400, height |-> 250]
        ELSE [width |-> 500, height |-> 300]]

\* width and height reserved in each breakpoint
Reserved ==
    [b \in {"mobile", "tablet", "small desktop", "large desktop"} |->
        IF b = "mobile" THEN [width |-> 40, height |-> 180]
        ELSE IF b = "tablet" THEN [width |-> 60, height |-> 200]
        ELSE IF b = "small desktop" THEN [width |-> 200, height |-> 220]
        ELSE [width |-> 300, height |-> 240]]

\* the padding of a call: 40 when none is passed
PaddingOf(padding) == IF padding.given THEN padding.value ELSE 40

ContainerComputed == scaled.fn \in {"calculateContainerDimensions", "createScaleConfig"}

\* the container either of them reports
ContainerReported ==
    IF scaled.fn = "createScaleConfig"
    THEN [containerWidth |-> scaled.scaleConfig.containerWidth,
          containerHeight |-> scaled.scaleConfig.containerHeight]
    ELSE scaled.containerDimensions

\* the container of a viewport wider than 1024 with reservedH reserved in
\* height, its values for 1200x800, and the maxima of the three-mountain fixture
LargeDesktopRule(reservedH, defaultContainer, paddedContainer) ==
    /\ (ContainerComputed /\ viewport.width > 1024) =>
          /\ viewport.width - 300 - 2 * PaddingOf(scaled.padding) > 500 =>
                ContainerReported.containerWidth =
                    viewport.width - 300 - 2 * PaddingOf(scaled.padding)
          /\ viewport.height - reservedH - 2 * PaddingOf(scaled.padding) > 300 =>
                ContainerReported.containerHeight =
                    viewport.height - reservedH - 2 * PaddingOf(scaled.padding)
    /\ (ContainerComputed /\ viewport = [width |-> 1200, height |-> 800]) =>
          /\ ~ scaled.padding.given => ContainerReported = defaultContainer
          /\ scaled.padding = [given |-> TRUE, value |-> 60] =>
                ContainerReported = paddedContainer
    /\ (scaled.fn = "createScaleConfig" /\ subset = Fixture) =>
          /\ scaled.scaleConfig.maxHeight = Integer(8849)
          /\ scaled.scaleConfig.maxWidth = Integer(5000)

RECURSIVE SplitFrom(_, _, _)
SplitFrom(pieces, piece, chars) ==
    IF chars = << >> THEN Append(pieces, piece)
    ELSE IF Head(chars) = " " THEN SplitFrom(Append(pieces, piece), << >>, Tail(chars))
    ELSE SplitFrom(pieces, Append(piece, Head(chars)), Tail(chars))

Split(chars) == SplitFrom(<< >>, << >>, chars)

DigitValue(c) == CHOOSE k \in 0..9 : DigitChar(k) = c

\* the natural number a sequence of digits writes
RECURSIVE ParseDigits(_)
ParseDigits(digits) ==
    IF digits = << >> THEN 0
    ELSE 10 * ParseDigits(SubSeq(digits, 1, Len(digits) - 1)) + DigitValue(digits[Len(digits)])

RECURSIVE Pow10(_)
Pow10(k) == IF k = 0 THEN 1 ELSE 10 * Pow10(k - 1)

\* position of the decimal point in an unsigned decimal, 0 if there is none
PointAt(chars) ==
    IF \E i \in 1..Len(chars) : chars[i] = "."
    THEN CHOOSE i \in 1..Len(chars) : chars[i] = "."
    ELSE 0

\* the number an unsigned decimal writes
ParseUnsigned(chars) ==
    IF PointAt(chars) = 0 THEN Fraction(ParseDigits(chars), 1)
    ELSE Fraction(ParseDigits(SubSeq(chars, 1, PointAt(chars) - 1))
                      * Pow10(Len(chars) - PointAt(chars))
                  + ParseDigits(SubSeq(chars, PointAt(chars) + 1, Len(chars))),
                  Pow10(Len(chars) - PointAt(chars)))

\* the number a decimal writes
ParseNumber(chars) ==
    IF chars # << >> /\ Head(chars) = "-" THEN Negate(ParseUnsigned(Tail(chars)))
    ELSE ParseUnsigned(chars)

Point(x, y) == [x |-> x, y |-> y]

\* the points of a path "M x y L x y L x y Z", in order
PathPoints(path) ==
    << Point(ParseNumber(Split(path)[2]), ParseNumber(Split(path)[3])),
       Point(ParseNumber(Split(path)[5]), ParseNumber(Split(path)[6])),
       Point(ParseNumber(Split(path)[8]), ParseNumber(Split(path)[9])) >>

\* C20: generateTrianglePath(mountain, s) describes the three points apex
\* (width*s/2, 0), base-left (0, height*s) and base-right (width*s, height*s),
\* in that order, closed, height*s and width*s being the values of
\* calculateScaledDimensions (no rounding to integers); for s = 0 the path is
\* 'M 0 0 L 0 0 L 0 0 Z'.
C20_TrianglePath ==
    scaled.fn = "generateTrianglePath" =>
        /\ Len(Split(scaled.path)) = 10
        /\ Split(scaled.path)[1] = <<"M">>
        /\ Split(scaled.path)[4] = <<"L">>
        /\ Split(scaled.path)[7] = <<"L">>
        /\ Split(scaled.path)[10] = <<"Z">>
        /\ PathPoints(scaled.path) =
              << Point(Fraction(
                           calculateScaledDimensions(scaled.mountain,
                                                     scaled.scaleFactorArg).scaledWidth.n,
                           2 * calculateScaledDimensions(scaled.mountain,
                                                         scaled.scaleFactorArg).scaledWidth.d),
                       Zero),
                 Point(Zero,
                       calculateScaledDimensions(scaled.mountain,
                                                 scaled.scaleFactorArg).scaledHeight),
                 Point(calculateScaledDimensions(scaled.mountain,
                                                 scaled.scaleFactorArg).scaledWidth,
                       calculateScaledDimensions(scaled.mountain,
                                                 scaled.scaleFactorArg).scaledHeight) >>
        /\ scaled.scaleFactorArg = Zero =>
              scaled.path = <<"M", " ", "0", " ", "0", " ", "L", " ", "0", " ", "0", " ",
                              "L", " ", "0", " ", "0", " ", "Z">>

\* the path of a mountain 5 high and 3 wide at scale 3/8:
\* 'M 0.5625 0 L 0 1.875 L 1.125 1.875 Z'
C20_Witness ==
    /\ scaled.fn = "generateTrianglePath"
    /\ scaled.mountain = [height |-> Integer(5), width |-> Integer(3)]
    /\ scaled.scaleFactorArg = Real(3, 8)
    /\ scaled.path = <<"M", " ", "0", ".", "5", "6", "2", "5", " ", "0", " ",
                       "L", " ", "0", " ", "1", ".", "8", "7", "5", " ",
                       "L", " ", "1", ".", "1", "2", "5", " ", "1", ".", "8", "7", "5", " ", "Z">>

\* the exact sum of the scaled widths of the mountains
RECURSIVE ExactSumOfScaledWidths(_, _)
ExactSumOfScaledWidths(ms, scaleFactor) ==
    IF ms = << >> THEN Zero
    ELSE LET rest == ExactSumOfScaledWidths(Tail(ms), scaleFactor)
             w == calculateScaledDimensions(Head(ms), scaleFactor).scaledWidth
         IN Fraction(rest.n * w.d + w.n * rest.d, rest.d * w.d)

SpacingOf(spacing) == IF spacing.given THEN spacing.value ELSE Integer(20)

\* sum of the scaled widths + (N-1) * spacing, exactly
ExactTotalWidth(ms, scaleFactor, spacing) ==
    LET sum == ExactSumOfScaledWidths(ms, scaleFactor)
        gaps == Fraction((Len(ms) - 1) * SpacingOf(spacing).n, SpacingOf(spacing).d)
    IN Fraction(sum.n * gaps.d + gaps.n * sum.d, sum.d * gaps.d)

\* C21: calculateSVGViewBox returns '0 0 100 100' for an empty list; for N >= 1
\* mountains it returns 'x y w h' with origin x = y = 0, w the sum of the
\* scaled widths + (N-1) * spacing (as the floating-point additions give it,
\* for N = 1 the scaled width itself) and h the largest scaled height.
C21_SVGViewBox ==
    scaled.fn = "calculateSVGViewBox" =>
        /\ subset = << >> =>
              scaled.viewBox = <<"0", " ", "0", " ", "1", "0", "0", " ", "1", "0", "0">>
        /\ subset # << >> =>
              /\ Len(Split(scaled.viewBox)) = 4
              /\ Split(scaled.viewBox)[1] = <<"0">>
              /\ Split(scaled.viewBox)[2] = <<"0">>
              /\ EqualUpToRounding(
                     ParseNumber(Split(scaled.viewBox)[3]),
                     ExactTotalWidth(subset, scaled.scaleFactorArg, scaled.spacing))
              /\ Len(subset) = 1 =>
                     ParseNumber(Split(scaled.viewBox)[3]) =
                         calculateScaledDimensions(subset[1],
                                                   scaled.scaleFactorArg).scaledWidth
              /\ IsMaximum(
                     ParseNumber(Split(scaled.viewBox)[4]),
                     {calculateScaledDimensions(subset[i],
                                                scaled.scaleFactorArg).scaledHeight :
                         i \in 1..Len(subset)})

\* two mountains 3 and 5 wide, 5 and 1 high, at scale 1/2 with spacing 10:
\* '0 0 14 2.5'
C21_Witness ==
    /\ scaled.fn = "calculateSVGViewBox"
    /\ subset = << [height |-> Integer(5), width |-> Integer(3)],
                   [height |-> Integer(1), width |-> Integer(5)] >>
    /\ scaled.scaleFactorArg = Real(1, 2)
    /\ scaled.spacing = Given(Integer(10))
    /\ scaled.viewBox = <<"0", " ", "0", " ", "1", "4", " ", "2", ".", "5">>

\* the scale of the current selection in the current container
SharedScale ==
    calculateScaleFactor(calculateMaxDimensions(subset), ContainerNumbers(viewDimensions),
                         NotGiven)

\* the product x * y, exactly
Product(x, y) == Fraction(x.n * y.n, x.d * y.d)

\* every triangle is drawn for its mountain with the scale of the current
\* selection and the current container
DrawnWithSharedScale ==
    /\ Len(triangles) = Len(subset)
    /\ \A i \in 1..Len(triangles) :
          /\ triangles[i].mountain = subset[i]
          /\ triangles[i].scale = SharedScale
          /\ triangles[i].scaledWidth = Times(subset[i].width, SharedScale)
          /\ triangles[i].scaledHeight = Times(subset[i].height, SharedScale)
    /\ listening =>
          viewDimensions =
              calculateContainerDimensions(viewport.width, viewport.height, NoPadding)

\* C22 as stated: all mountains of one selection are drawn with one shared
\* scale factor, that of the current selection and the current container
\* after every selection change and every resize, and for any two of them
\* scaledHeight(a) * b.height = scaledHeight(b) * a.height and
\* scaledWidth(a) * b.width = scaledWidth(b) * a.width.
C22_SharedScaleExactProportions ==
    /\ DrawnWithSharedScale
    /\ \A a, b \in 1..Len(triangles) :
          /\ Product(triangles[a].scaledHeight, subset[b].height)
                = Product(triangles[b].scaledHeight, subset[a].height)
          /\ Product(triangles[a].scaledWidth, subset[b].width)
                = Product(triangles[b].scaledWidth, subset[a].width)

\* C22, amended: all mountains of one selection are drawn with one shared
\* scale factor, that of the current selection and the current container
\* after every selection change and every resize, and for any two of them
\* scaledHeight(a) * b.height and scaledHeight(b) * a.height, and likewise
\* the widths, are equal up to rounding.
C22_SharedScale ==
    /\ DrawnWithSharedScale
    /\ \A a, b \in 1..Len(triangles) :
          /\ EqualUpToRounding(Product(triangles[a].scaledHeight, subset[b].height),
                               Product(triangles[b].scaledHeight, subset[a].height))
          /\ EqualUpToRounding(Product(triangles[a].scaledWidth, subset[b].width),
                               Product(triangles[b].scaledWidth, subset[a].width))

\* two mountains of different size drawn after a resize
C22_Witness ==
    /\ listening
    /\ viewport = [width |-> 768, height |-> 300]
    /\ viewDimensions # InitialContainerDimensions
    /\ Len(triangles) = 2
    /\ triangles[1].mountain = [height |-> Integer(5), width |-> Integer(3)]
    /\ triangles[2].mountain = [height |-> Integer(3), width |-> Integer(1)]
    /\ triangles[1].scale = triangles[2].scale

(***************************************************************************)
(* Properties of useMountainData.                                           *)
(***************************************************************************)
\* request r is the one the mounted hook started last
Latest(r) == r.inst = instance /\ r.id = started

\* the fetch of r settles in this step, with data
SettlesWithData(r) == r \in inflight /\ r \notin inflight' /\ loads' = loads + 1

\* C23: the state of useMountainData is consistent with the outcome it
\* reports, after any sequence of initial load, retries and request
\* completions: whenever error is non-null, mountains is the empty list; and
\* when the latest load completes successfully, error is null and mountains is
\* the loaded collection.
C23_StateConsistentWithOutcome ==
    /\ [](error # "null" => mountains = << >>)
    /\ [][\A r \in inflight :
              (Latest(r) /\ SettlesWithData(r)) =>
                  /\ error' = "null"
                  /\ mountains' = LoadedCollection(loads')]_vars

\* a step of the mounted hook that is neither a mount, nor a fetch settling,
\* nor time passing: a call of retry()
RetryCalled == instance' = instance /\ clock' = clock /\ inflight \subseteq inflight'

\* C24: after a failed load retry() starts a new fetch, resets error to null
\* and sets loading to true; when that fetch succeeds the hook has loading =
\* false, error = null and mountains = the newly loaded collection; and every
\* started load whose fetch settles leaves loading = false, which every load
\* of the mounted hook does in the end.
C24_RetryRecovers ==
    /\ [][(error # "null" /\ RetryCalled) =>
              /\ error' = "null"
              /\ loading' = TRUE
              /\ started' = started + 1
              /\ \E r \in inflight' \ inflight : r.inst = instance /\ r.id = started']_vars
    /\ [][\A r \in inflight :
              (r \notin inflight' /\ r.inst = instance) =>
                  /\ loading' = FALSE
                  /\ (Latest(r) /\ SettlesWithData(r)) =>
                         error' = "null" /\ mountains' = LoadedCollection(loads')]_vars
    /\ (instance > 0 /\ loading) ~> ~ loading

\* the first load failed, the fetch of the retry succeeded
C24_Witness ==
    /\ instance = 1
    /\ started = 2
    /\ loads = 1
    /\ inflight = {}
    /\ ~ loading
    /\ error = "null"
    /\ mountains = LoadedCollection(1)

(***************************************************************************)
(* The warning toast at the selection limit.                                *)
(***************************************************************************)
\* the user clicks item i of the list as rendered: nothing queued, and this
\* step is the click
ClicksRenderedItem(i) ==
    /\ pending = << >>
    /\ i \in 1..Len(mountains)
    /\ cursor' = i
    /\ cursor' # cursor

\* C25: when 10 mountains are selected and the user clicks an unselected
\* eleventh mountain in the rendered list, the toggle reaches App, which
\* raises the warning toast 'Selection limit reached', and the selection
\* stays at 10.
C25_WarningToastAtLimit ==
    [][\A i \in 1..NumMountains :
          (/\ ClicksRenderedItem(i)
           /\ Len(selectedMountains) = 10
           /\ mountains[i].id \notin IdsOf(selectedMountains)) =>
              /\ pending' = <<ToggleUpdate(mountains[i])>>
              /\ Rendered'.toast = Toast("warning", "Selection limit reached")
              /\ Rendered'.sel = selectedMountains]_vars

(***************************************************************************)
(* Properties of the validator on records with any combination of fields.   *)
(***************************************************************************)
NonEmptyString(v) == v.t = "string" /\ Len(v.s) > 0

PositiveFinite(v) == isFinite(v) /\ v.n > 0

AbsentOrString(v) == v = Undefined \/ v.t = "string"

\* the per-element rules
MeetsElementRules(m) ==
    /\ m.isObject
    /\ NonEmptyString(m.id)
    /\ NonEmptyString(m.name)
    /\ PositiveFinite(m.height)
    /\ PositiveFinite(m.width)
    /\ AbsentOrString(m.country)
    /\ AbsentOrString(m.region)

\* C26: validateMountain accepts every record that meets the per-element
\* rules: id and name non-empty strings, height and width positive finite
\* numbers, country and region each absent or a string, whatever the string.
C26_RuleAbidingRecordAccepted ==
    (/\ validated # NotRun
     /\ Len(response.body.mountains) = 1
     /\ MeetsElementRules(response.body.mountains[1])) =>
        /\ validateMountain(response.body.mountains[1], 0) = NoError
        /\ validated.status = "returned"

\* the checks in the order claimed
CheckOrder == <<"object", "id", "name", "height", "width", "country", "region", "duplicate id">>

\* the checks element i of ms fails
FailingChecks(ms, i) ==
    IF ~ ms[i].isObject THEN {"object"}
    ELSE {c \in {"id"} : ~ isValidString(ms[i].id)}
         \cup {c \in {"name"} : ~ isValidString(ms[i].name)}
         \cup {c \in {"height"} : ~ isValidPositiveNumber(ms[i].height)}
         \cup {c \in {"width"} : ~ isValidPositiveNumber(ms[i].width)}
         \cup {c \in {"country"} : ~ isValidOptionalString(ms[i].country)}
         \cup {c \in {"region"} : ~ isValidOptionalString(ms[i].region)}
         \cup {c \in {"duplicate id"} :
                  \E j \in 1..(i - 1) : ms[j].isObject /\ ms[j].id = ms[i].id}

FirstFailingCheck(ms, i) ==
    CheckOrder[CHOOSE k \in 1..Len(CheckOrder) :
                  /\ CheckOrder[k] \in FailingChecks(ms, i)
                  /\ \A l \in 1..(k - 1) : CheckOrder[l] \notin FailingChecks(ms, i)]

LowestViolation(ms) ==
    CHOOSE i \in 1..Len(ms) :
        /\ FailingChecks(ms, i) # {}
        /\ \A j \in 1..(i - 1) : FailingChecks(ms, j) = {}

\* the check an error reports
ReportedCheck(err) ==
    IF err.text = "Duplicate mountain ID" THEN "duplicate id"
    ELSE IF err.field = "mountain" THEN "object"
    ELSE err.field

\* C27: of the violations of a dataset validateMountainData reports exactly
\* one: that of the lowest index with any violation, and within that element
\* the first failing check in the order object, id, name, height, width,
\* country, region, duplicate id; a duplicate id at index j is reported only
\* if all elements before j are valid and element j passes every field check.
C27_FirstViolationReported ==
    (/\ validated # NotRun
     /\ response.body.kind = "array"
     /\ \E i \in 1..Len(response.body.mountains) :
           FailingChecks(response.body.mountains, i) # {}) =>
        /\ validated.status = "threw"
        /\ validated.err.index = LowestViolation(response.body.mountains) - 1
        /\ ReportedCheck(validated.err) =
              FirstFailingCheck(response.body.mountains,
                                LowestViolation(response.body.mountains))
        /\ ReportedCheck(validated.err) = "duplicate id" =>
              /\ \A j \in 1..validated.err.index :
                    FailingChecks(response.body.mountains, j) = {}
              /\ FailingChecks(response.body.mountains, validated.err.index + 1)
                    = {"duplicate id"}

\* a valid element, then one that repeats its id with a bad height and a bad
\* country, then some element: the height at index 1 is reported
C27_Witness ==
    /\ validated.status = "threw"
    /\ Len(response.body.mountains) >= 2
    /\ FailingChecks(response.body.mountains, 1) = {}
    /\ FailingChecks(response.body.mountains, 2) = {"height", "country", "duplicate id"}
    /\ validated.err.index = 1
    /\ validated.err.field = "height"

(***************************************************************************)
(* Properties of the dataset cache of useMountainData.                      *)
(***************************************************************************)
\* the hook is mounted in this step: the load of its effect is not forced
MountedNow == instance' = instance + 1

\* a collection is cached and its timestamp is less than 5 minutes old
CachedLessThanFiveMinutesAgo ==
    mountainDataCache # 0 /\ cacheTimestamp # 0 /\ clock - cacheTimestamp < 300000

\* C28: the dataset cache is written only by a successfully completed fetch;
\* a non-forced load started less than 5 minutes after the cached timestamp
\* sets mountains to the cached collection and issues no fetch; retry() always
\* issues a fetch, whatever the cache; a failed fetch leaves the cached
\* collection and its timestamp unchanged.
C28_CacheFrame ==
    [][/\ (mountainDataCache' # mountainDataCache \/ cacheTimestamp' # cacheTimestamp) =>
              \E r \in inflight :
                  /\ SettlesWithData(r)
                  /\ mountainDataCache' = loads'
                  /\ cacheTimestamp' = r.now
       /\ (MountedNow /\ CachedLessThanFiveMinutesAgo) =>
              /\ mountains' = LoadedCollection(mountainDataCache)
              /\ loading' = FALSE
              /\ started' = started
              /\ inflight' = inflight
       /\ RetryCalled =>
              /\ started' = started + 1
              /\ \E r \in inflight' \ inflight : r.inst = instance /\ r.id = started'
       /\ \A r \in inflight :
              (r \notin inflight' /\ loads' = loads) =>
                  /\ mountainDataCache' = mountainDataCache
                  /\ cacheTimestamp' = cacheTimestamp]_vars

\* the hook mounted a second time within 5 minutes of the load that filled
\* the cache: it shows the cached collection without a fetch of its own
C28_Witness ==
    /\ instance = 2
    /\ mountainDataCache = 1
    /\ clock - cacheTimestamp < 300000
    /\ clock > cacheTimestamp
    /\ started = 1
    /\ inflight = {}
    /\ ~ loading
    /\ mountains = LoadedCollection(1)

\* C29: loading is true for as long as at least one load request started by
\* the mounted hook has not settled: with two overlapping requests the
\* completion of one does not set loading to false while the other is pending.
C29_LoadingWhilePending ==
    (\E r \in inflight : r.inst = instance) => loading

(***************************************************************************)
(* The geometry handed to the renderer.                                     *)
(***************************************************************************)
FiniteAboveZero(x) == x.d # 0 /\ x.n > 0

\* C30: for every non-empty selection of mountains that passed validation
\* and every viewport, the scale factor computed with the default margin from
\* calculateContainerDimensions and calculateMaxDimensions is finite and > 0,
\* and so is every scaled width and scaled height.
C30_GeometryFiniteAndPositive ==
    (listening /\ subset # << >>) =>
        /\ FiniteAboveZero(SharedScale)
        /\ \A i \in 1..Len(triangles) :
              /\ triangles[i].scale = SharedScale
              /\ FiniteAboveZero(triangles[i].scaledWidth)
              /\ FiniteAboveZero(triangles[i].scaledHeight)

====
